---- MODULE Spec2Model ----
(***************************************************************************)
(* A model of github.com/ShawnROGrady/benchparse: the typing of a value    *)
(* token, the typed comparison of benchmark input variables, the           *)
(* filter-expression parser, Filter and Group over a list of results, the  *)
(* decomposition of a benchmark name (parseInfo), the gathering of the     *)
(* lines of a stream (parseBenchmarks) and the rendering of inputs,        *)
(* benchmarks and filter expressions (String).                             *)
(*                                                                         *)
(* Go strings are modelled as sequences of one-character strings, so that  *)
(* splitting, joining, lexicographic order and number formatting are       *)
(* computed and not assumed.  A float64 is modelled by the integer number  *)
(* of 1/FloatDen units it holds (every float of the model has at most      *)
(* seven decimals; "%f" prints six of them and "%.2f" two).                *)
(***************************************************************************)
EXTENDS Integers, Sequences, FiniteSets, TLC

VARIABLES pc, results, args, ret

vars == <<pc, results, args, ret>>

(***************************************************************************)
(* Strings                                                                 *)
(***************************************************************************)

\* The byte value of every character the model uses (ASCII).
CharCode ==
    [c \in {"!", "+", ",", "-", ".", "/", "0", "1", "2", "3", "4", "5", "6", "7",
            "8", "9", "<", "=", ">", "B", "a", "b", "c", "e", "f", "h", "k", "l", "m",
            "n", "r", "s", "t", "u", "x", "y", "z"} |->
        CASE c = "!" -> 33 [] c = "+" -> 43 [] c = "," -> 44 [] c = "-" -> 45
          [] c = "." -> 46 [] c = "/" -> 47 [] c = "0" -> 48 [] c = "1" -> 49
          [] c = "2" -> 50 [] c = "3" -> 51 [] c = "4" -> 52 [] c = "5" -> 53
          [] c = "6" -> 54 [] c = "7" -> 55 [] c = "8" -> 56 [] c = "9" -> 57
          [] c = "<" -> 60 [] c = "=" -> 61 [] c = ">" -> 62 [] c = "B" -> 66
          [] c = "a" -> 97 [] c = "b" -> 98 [] c = "c" -> 99 [] c = "e" -> 101 [] c = "f" -> 102
          [] c = "h" -> 104 [] c = "k" -> 107 [] c = "l" -> 108 [] c = "m" -> 109
          [] c = "n" -> 110 [] c = "r" -> 114 [] c = "s" -> 115 [] c = "t" -> 116
          [] c = "u" -> 117 [] c = "x" -> 120 [] c = "y" -> 121 [] c = "z" -> 122]

DigitChars == <<"0", "1", "2", "3", "4", "5", "6", "7", "8", "9">>

Digits == {DigitChars[i] : i \in 1..Len(DigitChars)}

DigitVal(c) == CharCode[c] - CharCode["0"]

\* Go's s1 < s2 on strings: bytewise lexicographic order.
RECURSIVE StrLess(_, _)
StrLess(a, b) ==
    IF b = <<>> THEN FALSE
    ELSE IF a = <<>> THEN TRUE
    ELSE IF CharCode[Head(a)] # CharCode[Head(b)]
         THEN CharCode[Head(a)] < CharCode[Head(b)]
         ELSE StrLess(Tail(a), Tail(b))

HasPrefix(s, p) == Len(s) >= Len(p) /\ SubSeq(s, 1, Len(p)) = p

\* strings.Index(s, sep) for a non-empty sep: the 1-based index of the first
\* occurrence, 0 if there is none.
Index(s, sep) ==
    LET hits == {i \in 1..(Len(s) - Len(sep) + 1) : SubSeq(s, i, i + Len(sep) - 1) = sep}
    IN IF hits = {} THEN 0 ELSE CHOOSE i \in hits : \A j \in hits : i <= j

\* strings.Split(s, sep) for a non-empty sep: cut at each successive
\* non-overlapping occurrence, scanning from the left.
RECURSIVE Split(_, _)
Split(s, sep) ==
    LET i == Index(s, sep)
    IN IF i = 0 THEN <<s>>
       ELSE <<SubSeq(s, 1, i - 1)>> \o Split(SubSeq(s, i + Len(sep), Len(s)), sep)

\* strings.Join(elems, sep)
RECURSIVE Join(_, _)
Join(elems, sep) ==
    IF elems = <<>> THEN <<>>
    ELSE IF Len(elems) = 1 THEN elems[1]
    ELSE elems[1] \o sep \o Join(Tail(elems), sep)

\* strconv.Itoa
RECURSIVE NatStr(_)
NatStr(n) ==
    IF n < 10 THEN <<DigitChars[n + 1]>>
    ELSE NatStr(n \div 10) \o <<DigitChars[(n % 10) + 1]>>

Itoa(n) == IF n < 0 THEN <<"-">> \o NatStr(-n) ELSE NatStr(n)

\* The value of a run of decimal digits.
RECURSIVE DigitsVal(_)
DigitsVal(s) ==
    IF s = <<>> THEN 0
    ELSE 10 * DigitsVal(SubSeq(s, 1, Len(s) - 1)) + DigitVal(s[Len(s)])

AllDigits(s) == \A i \in 1..Len(s) : s[i] \in Digits

Pow10(k) == 10 ^ k

(***************************************************************************)
(* Values: the dynamic type of BenchVarValue.Value.  value() produces int, *)
(* float64, bool and string; kind is the reflect.Kind.                     *)
(***************************************************************************)

\* One float64 unit of the model: floats are whole numbers of 1/FloatDen.
FloatDen == Pow10(7)

\* The decimals a float of the model can hold.
FracDigits == Len(NatStr(FloatDen)) - 1

IntV(n) == [kind |-> "int", num |-> n, b |-> FALSE, s |-> <<>>]

FloatV(u) == [kind |-> "float64", num |-> u, b |-> FALSE, s |-> <<>>]

BoolV(x) == [kind |-> "bool", num |-> 0, b |-> x, s |-> <<>>]

StrV(x) == [kind |-> "string", num |-> 0, b |-> FALSE, s |-> x]

\* strconv.Atoi succeeds: an optional sign and at least one decimal digit.
Unsigned(s) == IF s # <<>> /\ Head(s) \in {"+", "-"} THEN Tail(s) ELSE s

Negative(s) == s # <<>> /\ Head(s) = "-"

\* The digits of s without its leading zeros.
RECURSIVE StripZeros(_)
StripZeros(s) == IF s # <<>> /\ Head(s) = "0" THEN StripZeros(Tail(s)) ELSE s

\* The decimal digits of the largest int (1<<63 - 1) and of the magnitude of
\* the smallest (1<<63): int is 64 bits wide.
MaxIntDigits ==
    <<"9", "2", "2", "3", "3", "7", "2", "0", "3", "6", "8", "5", "4", "7", "7", "5",
      "8", "0", "7">>

MinIntDigits ==
    <<"9", "2", "2", "3", "3", "7", "2", "0", "3", "6", "8", "5", "4", "7", "7", "5",
      "8", "0", "8">>

\* The signed decimal literal s is within the range of int (strconv.Atoi
\* returns ErrRange otherwise); two runs of digits of the same length are
\* ordered as numbers the way StrLess orders them.
InIntRange(s) ==
    LET m == StripZeros(Unsigned(s))
        limit == IF Negative(s) THEN MinIntDigits ELSE MaxIntDigits
    IN Len(m) < Len(limit) \/ (Len(m) = Len(limit) /\ ~StrLess(limit, m))

AtoiOk(s) == Unsigned(s) # <<>> /\ AllDigits(Unsigned(s)) /\ InIntRange(s)

Atoi(s) == IF Negative(s) THEN -DigitsVal(Unsigned(s)) ELSE DigitsVal(Unsigned(s))

\* strconv.ParseFloat(s, 64) on a decimal literal without exponent: an
\* optional sign, digits with at most one point, at least one digit.  (The
\* strings of the model hold none of the characters of an exponent, a
\* hexadecimal mantissa, "inf" or "nan" next to a digit, no zero mantissa
\* with a sign and no more than FracDigits decimals, so this is all of
\* ParseFloat they can reach.)
ParseFloatOk(s) ==
    LET m == Unsigned(s)
        parts == Split(m, <<".">>)
    IN /\ Len(parts) <= 2
       /\ \A i \in 1..Len(parts) : AllDigits(parts[i])
       /\ \E i \in 1..Len(parts) : parts[i] # <<>>

\* Most digits of a float's integral part for its units to be an integer of
\* the model, the largest of which is 2147483647.
WholeDigits == Len(NatStr(2147483647 \div FloatDen)) - 1

\* A float64 of a magnitude beyond the integers of the model, held as the
\* decimal literal it is the nearest float64 to; only its kind is used.
BigFloat(s) == [literal |-> s]

ParseFloat(s) ==
    LET m == Unsigned(s)
        parts == Split(m, <<".">>)
        whole == DigitsVal(parts[1]) * FloatDen
        frac == IF Len(parts) = 2
                THEN DigitsVal(parts[2]) * Pow10(FracDigits - Len(parts[2]))
                ELSE 0
    IN IF Len(StripZeros(parts[1])) > WholeDigits THEN BigFloat(s)
       ELSE IF Negative(s) THEN -(whole + frac) ELSE whole + frac

\* strconv.ParseBool
ParseBoolTrue ==
    {<<"1">>, <<"t">>, <<"T">>, <<"T", "R", "U", "E">>, <<"t", "r", "u", "e">>,
     <<"T", "r", "u", "e">>}

ParseBoolFalse ==
    {<<"0">>, <<"f">>, <<"F">>, <<"F", "A", "L", "S", "E">>,
     <<"f", "a", "l", "s", "e">>, <<"F", "a", "l", "s", "e">>}

\* ParseBool accepting the two lower-case words only.
ParseBoolOnlyWords(s) == s \in {<<"t", "r", "u", "e">>, <<"f", "a", "l", "s", "e">>}

ParseBoolOk(s) == s \in ParseBoolTrue \cup ParseBoolFalse

\* value trying ParseFloat before Atoi.
valueFloatFirst(s) ==
    IF ParseFloatOk(s) THEN FloatV(ParseFloat(s))
    ELSE IF AtoiOk(s) THEN IntV(Atoi(s))
    ELSE IF ParseBoolOk(s) THEN BoolV(s \in ParseBoolTrue)
    ELSE StrV(s)

\* value: the first conversion that succeeds, in the order Atoi, ParseFloat,
\* ParseBool; otherwise the string itself.
value(s) ==
    IF AtoiOk(s) THEN IntV(Atoi(s))
    ELSE IF ParseFloatOk(s) THEN FloatV(ParseFloat(s))
    ELSE IF ParseBoolOk(s) THEN BoolV(s \in ParseBoolTrue)
    ELSE StrV(s)

(***************************************************************************)
(* Comparison of two input variables                                       *)
(***************************************************************************)

BenchVarValue(name, val, position) ==
    [Name |-> name, Value |-> val, position |-> position]

\* The available comparison operations.
Eq == <<"=", "=">>

Ne == <<"!", "=">>

Lt == <<"<">>

Gt == <<">">>

Le == <<"<", "=">>

Ge == <<">", "=">>

Comparisons == {Eq, Ne, Lt, Gt, Le, Ge}

isNumeric(k) == k \in {"int", "float64"}

\* getFloat: an int is widened to float64, a float64 is taken as it is.
getFloat(v) == IF v.kind = "int" THEN v.num * FloatDen ELSE v.num

Ok(res) == [res |-> res, err |-> "nil"]

Err(err) == [res |-> FALSE, err |-> err]

\* equal without the widening of numeric kinds.
equalSameKind(b, o) ==
    IF b.Name # o.Name THEN Err("errDifferentNames")
    ELSE IF b.Value.kind # o.Value.kind THEN Err("errNonComparable")
    ELSE Ok(b.Value = o.Value)

equal(b, o) ==
    IF b.Name # o.Name THEN Err("errDifferentNames")
    ELSE IF isNumeric(b.Value.kind) /\ isNumeric(o.Value.kind)
         THEN Ok(getFloat(b.Value) = getFloat(o.Value))
    ELSE IF b.Value.kind # o.Value.kind THEN Err("errNonComparable")
    ELSE IF b.Value.kind = "string" THEN Ok(b.Value.s = o.Value.s)
    ELSE Ok(b.Value = o.Value)

\* less with an order on the booleans, false before true.
lessBoolOrdered(b, o) ==
    IF b.Name # o.Name THEN Err("errDifferentNames")
    ELSE IF isNumeric(b.Value.kind) /\ isNumeric(o.Value.kind)
         THEN Ok(getFloat(b.Value) < getFloat(o.Value))
    ELSE IF b.Value.kind # o.Value.kind THEN Err("errNonComparable")
    ELSE IF b.Value.kind = "string" THEN Ok(StrLess(b.Value.s, o.Value.s))
    ELSE Ok(~b.Value.b /\ o.Value.b)

\* less with the kinds checked before the names.
lessKindsFirst(b, o) ==
    IF isNumeric(b.Value.kind) /\ isNumeric(o.Value.kind)
    THEN IF b.Name # o.Name THEN Err("errDifferentNames")
         ELSE Ok(getFloat(b.Value) < getFloat(o.Value))
    ELSE IF b.Value.kind # o.Value.kind THEN Err("errNonComparable")
    ELSE IF b.Name # o.Name THEN Err("errDifferentNames")
    ELSE IF b.Value.kind = "string" THEN Ok(StrLess(b.Value.s, o.Value.s))
    ELSE Err("errOperationNotDefined")

less(b, o) ==
    IF b.Name # o.Name THEN Err("errDifferentNames")
    ELSE IF isNumeric(b.Value.kind) /\ isNumeric(o.Value.kind)
         THEN Ok(getFloat(b.Value) < getFloat(o.Value))
    ELSE IF b.Value.kind # o.Value.kind THEN Err("errNonComparable")
    ELSE IF b.Value.kind = "string" THEN Ok(StrLess(b.Value.s, o.Value.s))
    ELSE Err("errOperationNotDefined")

\* compare with Gt taken for the negation of less.
compareGtNotLess(c, v1, v2) ==
    LET eq == equal(v1, v2)
        lt == less(v1, v2)
    IN CASE c \in {Eq, Ne} -> IF eq.err # "nil" THEN Err(eq.err) ELSE Ok(eq.res <=> c = Eq)
         [] c \in {Lt, Ge, Gt} -> IF lt.err # "nil" THEN Err(lt.err) ELSE Ok(lt.res <=> c = Lt)
         [] c = Le -> IF eq.err # "nil" THEN Err(eq.err)
                      ELSE IF lt.err # "nil" THEN Err(lt.err)
                      ELSE Ok(eq.res \/ lt.res)
         [] OTHER -> Err("errInvalidOperation")

\* compare with Le and Gt settled by the equality check alone when the
\* values are equal.
compareShortCircuit(c, v1, v2) ==
    LET eq == equal(v1, v2)
        lt == less(v1, v2)
    IN CASE c = Eq -> IF eq.err # "nil" THEN Err(eq.err) ELSE Ok(eq.res)
         [] c = Ne -> IF eq.err # "nil" THEN Err(eq.err) ELSE Ok(~eq.res)
         [] c = Lt -> IF lt.err # "nil" THEN Err(lt.err) ELSE Ok(lt.res)
         [] c = Gt -> IF eq.err # "nil" THEN Err(eq.err)
                      ELSE IF eq.res THEN Ok(FALSE)
                      ELSE IF lt.err # "nil" THEN Err(lt.err)
                      ELSE Ok(~lt.res)
         [] c = Le -> IF eq.err # "nil" THEN Err(eq.err)
                      ELSE IF eq.res THEN Ok(TRUE)
                      ELSE IF lt.err # "nil" THEN Err(lt.err)
                      ELSE Ok(lt.res)
         [] c = Ge -> IF lt.err # "nil" THEN Err(lt.err) ELSE Ok(~lt.res)
         [] OTHER -> Err("errInvalidOperation")

\* Comparison.compare: the error is the compareErr's wrapped err, which is
\* what errors.Is matches.
compare(c, v1, v2) ==
    LET eq == equal(v1, v2)
        lt == less(v1, v2)
    IN CASE c = Eq -> IF eq.err # "nil" THEN Err(eq.err) ELSE Ok(eq.res)
         [] c = Ne -> IF eq.err # "nil" THEN Err(eq.err) ELSE Ok(~eq.res)
         [] c = Lt -> IF lt.err # "nil" THEN Err(lt.err) ELSE Ok(lt.res)
         [] c = Gt -> IF eq.err # "nil" THEN Err(eq.err)
                      ELSE IF lt.err # "nil" THEN Err(lt.err)
                      ELSE Ok(~(eq.res \/ lt.res))
         [] c = Le -> IF eq.err # "nil" THEN Err(eq.err)
                      ELSE IF lt.err # "nil" THEN Err(lt.err)
                      ELSE Ok(eq.res \/ lt.res)
         [] c = Ge -> IF lt.err # "nil" THEN Err(lt.err) ELSE Ok(~lt.res)
         [] OTHER -> Err("errInvalidOperation")

\* The verbs "%f" and "%.2f": the decimal nearest the float with prec
\* decimals, the sign kept.  (A float halfway between two such decimals goes
\* to the even one; no float of the model is.)
FormatFixed(u, prec) ==
    LET a == IF u < 0 THEN -u ELSE u
        scale == Pow10(FracDigits - prec)
        q == a \div scale
        r == a % scale
        n == IF 2 * r > scale \/ (2 * r = scale /\ q % 2 = 1) THEN q + 1 ELSE q
        frac == NatStr(n % Pow10(prec))
        pad == [i \in 1..(prec - Len(frac)) |-> "0"]
    IN (IF u < 0 THEN <<"-">> ELSE <<>>) \o NatStr(n \div Pow10(prec)) \o <<".">> \o pad \o frac

\* BenchVarValue.String: "%f" for a float64, "%v" for everything else.
FormatFloat(u) == FormatFixed(u, 6)

FormatValue(v) ==
    CASE v.kind = "int" -> Itoa(v.num)
      [] v.kind = "float64" -> FormatFloat(v.num)
      [] v.kind = "bool" -> IF v.b THEN <<"t", "r", "u", "e">> ELSE <<"f", "a", "l", "s", "e">>
      [] OTHER -> v.s

BenchVarValueString(b) == b.Name \o <<"=">> \o FormatValue(b.Value)

\* The digits s without the zeros at their end.
RECURSIVE StripTrailingZeros(_)
StripTrailingZeros(s) ==
    IF s # <<>> /\ s[Len(s)] = "0" THEN StripTrailingZeros(SubSeq(s, 1, Len(s) - 1)) ELSE s

\* The verb "%v" of a float64 (strconv's 'g' with the shortest digits that
\* give the float back): the decimal without zeros at its end and without a
\* point when nothing follows it; a float below 0.0001 is written with an
\* exponent of two digits.  (The exponent form of a float from 1e+21 on
\* takes no float of the model.)
FormatShortest(u) ==
    LET a == IF u < 0 THEN -u ELSE u
        sign == IF u < 0 THEN <<"-">> ELSE <<>>
        digs == NatStr(a)
        mant == StripTrailingZeros(digs)
        exp == NatStr(FracDigits + 1 - Len(digs))
        frac == NatStr(a % FloatDen)
        dec == StripTrailingZeros([i \in 1..(FracDigits - Len(frac)) |-> "0"] \o frac)
    IN IF a = 0 THEN <<"0">>
       ELSE IF a < FloatDen \div Pow10(4)
       THEN sign \o <<Head(mant)>>
                 \o (IF Len(mant) > 1 THEN <<".">> \o Tail(mant) ELSE <<>>)
                 \o <<"e", "-">> \o (IF Len(exp) < 2 THEN <<"0">> ELSE <<>>) \o exp
       ELSE sign \o NatStr(a \div FloatDen)
                 \o (IF dec = <<>> THEN <<>> ELSE <<".">> \o dec)

\* varValComp.String with the value written as BenchVarValue.String does.
FormatVFixed(v) == FormatValue(v)

\* The verb "%v" of a value.
FormatV(v) == IF v.kind = "float64" THEN FormatShortest(v.num) ELSE FormatValue(v)

\* varValComp.String
varValCompString(v) == v.varValue.Name \o v.cmp \o FormatV(v.varValue.Value)

\* benchVarValues.String
benchVarValuesString(b) ==
    Join([i \in 1..Len(b) |-> BenchVarValueString(b[i])], <<",">>)

(***************************************************************************)
(* The filter-expression parser                                            *)
(***************************************************************************)

\* The one-character operations tried before the two-character ones.
cmpsSingleFirst == <<Eq, Ne, Lt, Gt, Le, Ge>>

\* The order in which parseValueComparison tries the operations.
cmps == <<Eq, Ne, Le, Ge, Lt, Gt>>

\* The loop ended by the first operation that cuts the expression at all.
RECURSIVE parseValueComparisonStop(_, _)
parseValueComparisonStop(in, i) ==
    IF i > Len(cmps) THEN [varValue |-> BenchVarValue(<<>>, StrV(<<>>), 0),
                           cmp |-> <<>>, err |-> "errMalformedFilter"]
    ELSE LET split == Split(in, cmps[i])
         IN IF Len(split) < 2 THEN parseValueComparisonStop(in, i + 1)
            ELSE IF Len(split) > 2
            THEN [varValue |-> BenchVarValue(<<>>, StrV(<<>>), 0),
                  cmp |-> <<>>, err |-> "errMalformedFilter"]
            ELSE [varValue |-> BenchVarValue(split[1], value(split[2]), 0),
                  cmp |-> cmps[i], err |-> "nil"]

\* The loop of parseValueComparison from the i-th operation of cmps.
RECURSIVE parseValueComparisonFrom(_, _)
parseValueComparisonFrom(in, i) ==
    IF i > Len(cmps) THEN [varValue |-> BenchVarValue(<<>>, StrV(<<>>), 0),
                           cmp |-> <<>>, err |-> "errMalformedFilter"]
    ELSE LET split == Split(in, cmps[i])
         IN IF Len(split) # 2 THEN parseValueComparisonFrom(in, i + 1)
            ELSE [varValue |-> BenchVarValue(split[1], value(split[2]), 0),
                  cmp |-> cmps[i], err |-> "nil"]

parseValueComparison(in) == parseValueComparisonFrom(in, 1)

(***************************************************************************)
(* BenchResults.Filter and BenchResults.Group                              *)
(***************************************************************************)

\* The inner loop of Filter over one result's VarValues: "include" (a
\* comparison was true: break), "next" (none was), or the error that aborts.
\* The inner loop leaving the result at the first variable of another name.
RECURSIVE filterVarValuesStopAtOtherName(_, _, _)
filterVarValuesStopAtOtherName(cmp, val, varValues) ==
    IF varValues = <<>> THEN "next"
    ELSE LET r == compare(cmp, Head(varValues), val)
         IN IF r.err # "nil"
            THEN IF r.err # "errDifferentNames" THEN r.err ELSE "next"
            ELSE IF r.res THEN "include"
                 ELSE filterVarValuesStopAtOtherName(cmp, val, Tail(varValues))

RECURSIVE filterVarValues(_, _, _)
filterVarValues(cmp, val, varValues) ==
    IF varValues = <<>> THEN "next"
    ELSE LET r == compare(cmp, Head(varValues), val)
         IN IF r.err # "nil"
            THEN IF r.err # "errDifferentNames" THEN r.err
                 ELSE filterVarValues(cmp, val, Tail(varValues))
            ELSE IF r.res THEN "include"
                 ELSE filterVarValues(cmp, val, Tail(varValues))

\* The outer loop of Filter; a returned nil slice is isNil.
\* The outer loop returning what it had collected along with the error.
RECURSIVE filterResultsPartial(_, _, _, _)
filterResultsPartial(b, cmp, val, filtered) ==
    IF b = <<>> THEN [filtered |-> filtered, isNil |-> FALSE, err |-> "nil"]
    ELSE LET r == filterVarValues(cmp, val, Head(b).Inputs.VarValues)
         IN IF r = "include"
            THEN filterResultsPartial(Tail(b), cmp, val, Append(filtered, Head(b)))
            ELSE IF r = "next" THEN filterResultsPartial(Tail(b), cmp, val, filtered)
            ELSE [filtered |-> filtered, isNil |-> filtered = <<>>, err |-> r]

\* The outer loop left at the first result included.
RECURSIVE filterResultsFirstOnly(_, _, _, _)
filterResultsFirstOnly(b, cmp, val, filtered) ==
    IF b = <<>> THEN [filtered |-> filtered, isNil |-> FALSE, err |-> "nil"]
    ELSE LET r == filterVarValues(cmp, val, Head(b).Inputs.VarValues)
         IN IF r = "include"
            THEN [filtered |-> Append(filtered, Head(b)), isNil |-> FALSE, err |-> "nil"]
            ELSE IF r = "next" THEN filterResultsFirstOnly(Tail(b), cmp, val, filtered)
            ELSE [filtered |-> <<>>, isNil |-> TRUE, err |-> r]

RECURSIVE filterResults(_, _, _, _)
filterResults(b, cmp, val, filtered) ==
    IF b = <<>> THEN [filtered |-> filtered, isNil |-> FALSE, err |-> "nil"]
    ELSE LET r == filterVarValues(cmp, val, Head(b).Inputs.VarValues)
         IN IF r = "include" THEN filterResults(Tail(b), cmp, val, Append(filtered, Head(b)))
            ELSE IF r = "next" THEN filterResults(Tail(b), cmp, val, filtered)
            ELSE [filtered |-> <<>>, isNil |-> TRUE, err |-> r]

\* Filter leaving out the first result that matched.
FilterDropFirst(b, filterExpr) ==
    LET varValCmp == parseValueComparison(filterExpr)
        r == filterResults(b, varValCmp.cmp, varValCmp.varValue, <<>>)
    IN IF varValCmp.err # "nil"
       THEN [filtered |-> <<>>, isNil |-> TRUE, err |-> varValCmp.err]
       ELSE [r EXCEPT !.filtered = IF @ = <<>> THEN @ ELSE Tail(@)]

Filter(b, filterExpr) ==
    LET varValCmp == parseValueComparison(filterExpr)
    IN IF varValCmp.err # "nil"
       THEN [filtered |-> <<>>, isNil |-> TRUE, err |-> varValCmp.err]
       ELSE filterResults(b, varValCmp.cmp, varValCmp.varValue, <<>>)

\* The two inner loops of Group: one entry for every pair of a variable of
\* the result and a group-by name equal to its name, variable by variable.
RECURSIVE groupNames(_, _)
groupNames(varValue, groupBy) ==
    IF groupBy = <<>> THEN <<>>
    ELSE (IF varValue.Name = Head(groupBy) THEN <<varValue>> ELSE <<>>)
         \o groupNames(varValue, Tail(groupBy))

\* The two loops exchanged: group-by name by group-by name.
RECURSIVE groupValsByName(_, _)
groupValsByName(varValues, groupBy) ==
    IF groupBy = <<>> THEN <<>>
    ELSE SelectSeq(varValues, LAMBDA v : v.Name = Head(groupBy))
         \o groupValsByName(varValues, Tail(groupBy))

RECURSIVE groupVals(_, _)
groupVals(varValues, groupBy) ==
    IF varValues = <<>> THEN <<>>
    ELSE groupNames(Head(varValues), groupBy) \o groupVals(Tail(varValues), groupBy)

\* The outer loop with a result put before those its bucket holds.
RECURSIVE groupResultsPrepend(_, _, _)
groupResultsPrepend(b, groupBy, groupedResults) ==
    IF b = <<>> THEN groupedResults
    ELSE LET vals == groupVals(Head(b).Inputs.VarValues, groupBy)
             k == benchVarValuesString(vals)
         IN IF Len(vals) # Len(groupBy)
            THEN groupResultsPrepend(Tail(b), groupBy, groupedResults)
            ELSE IF k \in DOMAIN groupedResults
                 THEN groupResultsPrepend(Tail(b), groupBy,
                                          [groupedResults EXCEPT ![k] = <<Head(b)>> \o @])
                 ELSE groupResultsPrepend(Tail(b), groupBy,
                                          [x \in DOMAIN groupedResults \cup {k} |->
                                              IF x = k THEN <<Head(b)>> ELSE groupedResults[x]])

\* The outer loop of Group; the map is a function from its keys.
RECURSIVE groupResults(_, _, _)
groupResults(b, groupBy, groupedResults) ==
    IF b = <<>> THEN groupedResults
    ELSE LET vals == groupVals(Head(b).Inputs.VarValues, groupBy)
             k == benchVarValuesString(vals)
         IN IF Len(vals) # Len(groupBy) THEN groupResults(Tail(b), groupBy, groupedResults)
            ELSE IF k \in DOMAIN groupedResults
                 THEN groupResults(Tail(b), groupBy,
                                   [groupedResults EXCEPT ![k] = Append(@, Head(b))])
                 ELSE groupResults(Tail(b), groupBy,
                                   [x \in DOMAIN groupedResults \cup {k} |->
                                       IF x = k THEN <<Head(b)>> ELSE groupedResults[x]])

EmptyMap == [x \in {} |-> <<>>]

Group(b, groupBy) ==
    IF Len(groupBy) = 0 THEN [x \in {<<>>} |-> b]
    ELSE groupResults(b, groupBy, EmptyMap)

\* Filter called on what a Filter returned: a caller goes on only without
\* an error, so the error of the first call is that of the chain.
FilterNext(r, filterExpr) == IF r.err # "nil" THEN r ELSE Filter(r.filtered, filterExpr)

\* The bucket of an empty group-by list being the slice b itself.
GroupSharedInput(groupBy) == IF Len(groupBy) = 0 THEN {<<>>} ELSE {}

\* The keys of the map Group returns whose bucket has the backing array of
\* b: none.  The bucket of an empty group-by list is made and copied into,
\* every other bucket is appended to from a new slice.
GroupShared(groupBy) == {}

(***************************************************************************)
(* parseInfo: the decomposition of a benchmark name                        *)
(***************************************************************************)

BenchmarkPrefix == <<"B", "e", "n", "c", "h", "m", "a", "r", "k">>

\* The trailing run of decimal digits of s.
RECURSIVE TrailingDigits(_)
TrailingDigits(s) ==
    IF s = <<>> \/ s[Len(s)] \notin Digits THEN <<>>
    ELSE TrailingDigits(SubSeq(s, 1, Len(s) - 1)) \o <<s[Len(s)]>>

\* benchInfoExpr.FindStringSubmatch(s) for ^(Benchmark.+?)(?:\-([0-9]+))?$ :
\* <<>> when s does not match, else <<s, group 1, group 2>>.  Group 1 is
\* "Benchmark" and at least one more character, as few as let the rest be
\* empty or a hyphen and digits up to the end.
FindStringSubmatch(s) ==
    LET digits == TrailingDigits(s)
        cut == Len(s) - Len(digits) - 1
    IN IF ~(HasPrefix(s, BenchmarkPrefix) /\ Len(s) > Len(BenchmarkPrefix)) THEN <<>>
       ELSE IF digits # <<>> /\ cut > Len(BenchmarkPrefix) /\ s[cut + 1] = "-"
            THEN <<s, SubSeq(s, 1, cut), digits>>
            ELSE <<s, s, <<>>>>

BenchSub(name, position) == [Name |-> name, position |-> position]

BenchInputs(varValues, subs, maxProcs) ==
    [VarValues |-> varValues, Subs |-> subs, MaxProcs |-> maxProcs]

\* The loop cutting a component at its first "=" only.
RECURSIVE parseSubsFirstEq(_, _, _, _)
parseSubsFirstEq(bySub, i, varValues, subs) ==
    IF i >= Len(bySub) THEN [VarValues |-> varValues, Subs |-> subs]
    ELSE LET sub == bySub[i + 1]
             split == Split(sub, <<"=">>)
         IN IF i = 0 THEN parseSubsFirstEq(bySub, i + 1, varValues, subs)
            ELSE IF Len(split) >= 2
                 THEN parseSubsFirstEq(bySub, i + 1,
                                       Append(varValues,
                                              BenchVarValue(split[1],
                                                            value(Join(Tail(split), <<"=">>)), i)),
                                       subs)
                 ELSE parseSubsFirstEq(bySub, i + 1, varValues, Append(subs, BenchSub(sub, i)))

\* The loop giving every entry its index in its own list as position.
RECURSIVE parseSubsOwnIndex(_, _, _, _)
parseSubsOwnIndex(bySub, i, varValues, subs) ==
    IF i >= Len(bySub) THEN [VarValues |-> varValues, Subs |-> subs]
    ELSE LET sub == bySub[i + 1]
             split == Split(sub, <<"=">>)
         IN IF i = 0 THEN parseSubsOwnIndex(bySub, i + 1, varValues, subs)
            ELSE IF Len(split) = 2
                 THEN parseSubsOwnIndex(bySub, i + 1,
                                        Append(varValues,
                                               BenchVarValue(split[1], value(split[2]),
                                                             Len(varValues) + 1)),
                                        subs)
                 ELSE parseSubsOwnIndex(bySub, i + 1, varValues,
                                        Append(subs, BenchSub(sub, Len(subs) + 1)))

\* The loop of parseInfo over bySub from its i-th component (i counts from 0).
RECURSIVE parseSubs(_, _, _, _)
parseSubs(bySub, i, varValues, subs) ==
    IF i >= Len(bySub) THEN [VarValues |-> varValues, Subs |-> subs]
    ELSE LET sub == bySub[i + 1]
             split == Split(sub, <<"=">>)
         IN IF i = 0 THEN parseSubs(bySub, i + 1, varValues, subs)
            ELSE IF Len(split) = 2
                 THEN parseSubs(bySub, i + 1,
                                Append(varValues, BenchVarValue(split[1], value(split[2]), i)),
                                subs)
                 ELSE parseSubs(bySub, i + 1, varValues, Append(subs, BenchSub(sub, i)))

parseInfo(s) ==
    LET submatches == FindStringSubmatch(s)
        info == submatches[2]
        maxProcs == IF Len(submatches) = 3 /\ submatches[3] # <<>>
                    THEN Atoi(submatches[3])
                    ELSE 1
        bySub == Split(info, <<"/">>)
        parsed == parseSubs(bySub, 0, <<>>, <<>>)
    IN IF Len(submatches) < 1
       THEN [name |-> <<>>, Inputs |-> BenchInputs(<<>>, <<>>, 0), err |-> "no match"]
       ELSE [name |-> bySub[1],
             Inputs |-> BenchInputs(parsed.VarValues, parsed.Subs, maxProcs),
             err |-> "nil"]

(***************************************************************************)
(* BenchInputs.String                                                      *)
(***************************************************************************)

\* The inputs left in the order variables, then segments.
SortSliceNone(inputs) == {[i \in DOMAIN inputs |-> i]}

\* The permutations of 1..n that put positions in ascending order.  The
\* sort is not stable: inputs of equal position come out in any order.
SortSlice(inputs) ==
    {o \in [DOMAIN inputs -> DOMAIN inputs] :
        /\ \A i, j \in DOMAIN inputs : o[i] = o[j] => i = j
        /\ \A i, j \in DOMAIN inputs :
              i < j => ~(inputs[o[j]].position < inputs[o[i]].position)}

\* benchInput.String: name=value of a variable, the name of a segment.
InputString(input) ==
    IF "Value" \in DOMAIN input THEN BenchVarValueString(input) ELSE input.Name

\* The builder with the width written whatever it is.
WriteInputsWithWidth(b, inputs, o) ==
    Join([i \in DOMAIN o |-> <<"/">> \o InputString(inputs[o[i]])], <<>>)
        \o <<"-">> \o Itoa(b.MaxProcs)

\* What the builder holds after the inputs in the order o and the suffix.
WriteInputs(b, inputs, o) ==
    Join([i \in DOMAIN o |-> <<"/">> \o InputString(inputs[o[i]])], <<>>)
        \o (IF b.MaxProcs > 1 THEN <<"-">> \o Itoa(b.MaxProcs) ELSE <<>>)

\* The strings BenchInputs.String can return.
BenchInputsString(b) ==
    LET inputs == b.VarValues \o b.Subs
    IN {WriteInputs(b, inputs, o) : o \in SortSlice(inputs)}

(***************************************************************************)
(* parseBenchmarks: the lines of a stream gathered by top-level name       *)
(***************************************************************************)

\* strings.Fields for lines whose only white space is the space character.
Fields(line) == SelectSeq(Split(line, <<" ">>), LAMBDA f : f # <<>>)

NsPerOpUnit == <<"n", "s", "/", "o", "p">>

\* parse.ParseLine on the fields f of a line: no error when there are two,
\* the first starts with "Benchmark" and the second is an int.  Of
\* parse.Benchmark the Name, N, NsPerOp and the Measured bit of NsPerOp are
\* kept: every further pair of fields whose unit is ns/op and whose quantity
\* is a float sets them.
parseFields(f) ==
    LET ns == {i \in 1..((Len(f) \div 2) - 1) :
                  f[2 * i + 2] = NsPerOpUnit /\ ParseFloatOk(f[2 * i + 1])}
    IN IF ~(Len(f) >= 2 /\ HasPrefix(f[1], BenchmarkPrefix) /\ AtoiOk(f[2]))
       THEN [ok |-> FALSE, Name |-> <<>>, Outputs |-> <<>>]
       ELSE [ok |-> TRUE, Name |-> f[1],
             Outputs |->
                 [N |-> Atoi(f[2]),
                  NsPerOp |-> IF ns = {} THEN 0
                              ELSE ParseFloat(f[2 * (CHOOSE i \in ns : \A j \in ns : j <= i) + 1]),
                  Measured |-> IF ns = {} THEN {} ELSE {"NsPerOp"}]]

parseLine(line) == parseFields(Fields(line))

Benchmark(name, res) == [Name |-> name, Results |-> res]

BenchRes(inputs, outputs) == [Inputs |-> inputs, Outputs |-> outputs]

\* The end of the loop body with the results of a known name replaced, not
\* extended.
addResultReplace(benchmarks, parsed, info) ==
    IF info.err # "nil" THEN [benchmarks |-> <<>>, err |-> info.err]
    ELSE [benchmarks |->
              [x \in DOMAIN benchmarks \cup {info.name} |->
                  IF x = info.name
                  THEN Benchmark(info.name, <<BenchRes(info.Inputs, parsed.Outputs)>>)
                  ELSE benchmarks[x]],
          err |-> "nil"]

\* The end of the loop body with the map gathered so far returned beside
\* the error.
addResultPartial(benchmarks, parsed, info) ==
    IF info.err # "nil" THEN [benchmarks |-> benchmarks, err |-> info.err]
    ELSE [benchmarks |->
              [x \in DOMAIN benchmarks \cup {info.name} |->
                  IF x # info.name THEN benchmarks[x]
                  ELSE Benchmark(info.name,
                                 Append(IF x \in DOMAIN benchmarks THEN benchmarks[x].Results
                                        ELSE <<>>,
                                        BenchRes(info.Inputs, parsed.Outputs)))],
          err |-> "nil"]

\* The end of the loop body, from the result info of parseInfo: the error
\* returned, or the map with the result appended to the benchmark of its name.
addResult(benchmarks, parsed, info) ==
    IF info.err # "nil" THEN [benchmarks |-> <<>>, err |-> info.err]
    ELSE [benchmarks |->
              [x \in DOMAIN benchmarks \cup {info.name} |->
                  IF x # info.name THEN benchmarks[x]
                  ELSE Benchmark(info.name,
                                 Append(IF x \in DOMAIN benchmarks THEN benchmarks[x].Results
                                        ELSE <<>>,
                                        BenchRes(info.Inputs, parsed.Outputs)))],
          err |-> "nil"]

\* The loop body with a line that is no benchmark's ending the call.
scanParsedAbort(benchmarks, parsed) ==
    IF ~parsed.ok THEN [benchmarks |-> <<>>, err |-> "errParseLine"]
    ELSE addResult(benchmarks, parsed, parseInfo(parsed.Name))

\* The loop body from the result parsed of parse.ParseLine: a line that is
\* no benchmark's is passed over.
scanParsed(benchmarks, parsed) ==
    IF ~parsed.ok THEN [benchmarks |-> benchmarks, err |-> "nil"]
    ELSE addResult(benchmarks, parsed, parseInfo(parsed.Name))

\* The body of the loop of parseBenchmarks for one line: the map after it,
\* or the error that ends the call.
scanLine(benchmarks, line) == scanParsed(benchmarks, parseLine(line))

\* The orders in which a range over the map can visit its keys.
KeyOrders(benchmarks) ==
    LET n == Cardinality(DOMAIN benchmarks)
    IN {o \in [1..n -> DOMAIN benchmarks] : \A i, j \in 1..n : o[i] = o[j] => i = j}

\* The lines bufio.Scanner yields for a text: cut at every newline, a last
\* empty line not yielded.
DropLastEmpty(cut) == IF cut[Len(cut)] = <<>> THEN SubSeq(cut, 1, Len(cut) - 1) ELSE cut

ScanLines(text) == DropLastEmpty(Split(text, <<"\n">>))

\* The scan loop of parseBenchmarks over lines, from the map benchmarks; r is
\* what the body made of the line before.
RECURSIVE scanLines(_, _), scanRest(_, _)
scanRest(r, lines) == IF r.err # "nil" THEN r ELSE scanLines(r.benchmarks, lines)

scanLines(benchmarks, lines) ==
    IF lines = <<>> THEN [benchmarks |-> benchmarks, err |-> "nil"]
    ELSE scanRest(scanLine(benchmarks, Head(lines)), Tail(lines))

\* What parseBenchmarks can return after the scan loop ended as r: the
\* slices the range over the map can fill, or nil and the error.
returnBenchmarks(r) ==
    IF r.err # "nil" THEN {[parsedBenchmarks |-> <<>>, err |-> r.err]}
    ELSE {[parsedBenchmarks |-> [i \in DOMAIN o |-> r.benchmarks[o[i]]], err |-> "nil"] :
             o \in KeyOrders(r.benchmarks)}

parseBenchmarks(text) == returnBenchmarks(scanLines(EmptyMap, ScanLines(text)))

\* benchOutputsString: the iterations, then each measured output.
benchOutputsString(b) ==
    Itoa(b.N)
        \o (IF "NsPerOp" \in b.Measured
            THEN <<" ">> \o FormatFixed(b.NsPerOp, 2) \o <<" ">> \o NsPerOpUnit
            ELSE <<>>)

\* The sequences that take their i-th element from the i-th of the sets.
Choices(sets) ==
    {c \in [DOMAIN sets -> UNION {sets[i] : i \in DOMAIN sets}] :
        \A i \in DOMAIN c : c[i] \in sets[i]}

\* The line of one result: the name, the inputs, a space and the outputs.
ResultLines(name, res) ==
    {name \o inputs \o <<" ">> \o benchOutputsString(res.Outputs) :
        inputs \in BenchInputsString(res.Inputs)}

\* Benchmark.String with the lines joined by spaces.
BenchmarkStringOneLine(b) ==
    {Join(s, <<" ">>) :
        s \in Choices([i \in DOMAIN b.Results |-> ResultLines(b.Name, b.Results[i])])}

\* The strings Benchmark.String can return: one line for every result, the
\* lines joined by newlines.
BenchmarkString(b) ==
    {Join(s, <<"\n">>) :
        s \in Choices([i \in DOMAIN b.Results |-> ResultLines(b.Name, b.Results[i])])}

(***************************************************************************)
(* Bounds and input sets                                                   *)
(***************************************************************************)

\* Most results a list holds.
MaxResults == 2

\* Most components after the top-level name of a parsed benchmark name.
MaxSubs == 2

\* Most names of a group-by list.
MaxGroupBy == 2

\* Integers compared run over -MaxNum..MaxNum, floats over the halves between.
MaxNum == 2

\* Most characters after "Benchmark" of a name given to parseInfo alone.
MaxTail == 5

\* All sequences over S of a length in lo..hi.
SeqsOf(S, lo, hi) == UNION {[1..n -> S] : n \in lo..hi}

VarNames == {<<"y">>, <<"z">>}

\* The value tokens of names and filter expressions: an integer, a float, a
\* string and a boolean.
Tokens == {<<"1">>, <<"1", ".", "5">>, <<"a">>, <<"t">>}

\* The components of the benchmark names whose lines are parsed: variables
\* (the name y with every token, z with two) and a free segment.
Components ==
    {<<"y", "=">> \o tok : tok \in Tokens}
        \cup {<<"z", "=", "1">>, <<"z", "=", "a">>, <<"s">>}

BenchNames ==
    {BenchmarkPrefix \o <<"/">> \o Join(c, <<"/">>) : c \in SeqsOf(Components, 1, MaxSubs)}

\* Filter expressions: every name, operation and token, an expression with
\* no operation, and one that splits into three parts.
FilterExprs ==
    {n \o c \o tok : n \in VarNames, c \in Comparisons, tok \in Tokens}
        \cup {<<"y", ",", "2">>, <<"y", "<", "1", "<", "2">>}

GroupBys == SeqsOf(VarNames, 0, MaxGroupBy)

\* The expressions of two filters applied one after the other: both names,
\* an equality and two orders, a number and a string, and an expression
\* with no operation.
ChainExprs ==
    {n \o c \o tok : n \in VarNames, c \in {Eq, Lt, Ge}, tok \in {<<"1">>, <<"a">>}}
        \cup {<<"y", ",", "2">>}

\* The names given to parseInfo alone: "Benchmark", or a name without its
\* last letter, and up to MaxTail characters.
TailChars == {"/", "=", "-", "2", ".", "t", "a"}

InfoNames ==
    {p \o tail : p \in {BenchmarkPrefix, SubSeq(BenchmarkPrefix, 1, 8)},
                 tail \in SeqsOf(TailChars, 0, MaxTail)}

\* The values compared directly.
CompareValues ==
    {IntV(n) : n \in (-MaxNum)..MaxNum}
        \cup {FloatV(h * (FloatDen \div 2)) : h \in (-2 * MaxNum)..(2 * MaxNum)}
        \cup {BoolV(x) : x \in BOOLEAN}
        \cup {StrV(x) : x \in {<<>>, <<"a">>, <<"a", "b">>, <<"b">>}}

CompareVars == {BenchVarValue(n, v, 0) : n \in VarNames, v \in CompareValues}

\* Most characters of a token given to value alone.
MaxToken == 3

\* The tokens given to value alone: every string of up to MaxToken characters
\* over signs, a point, digits and letters, every spelling strconv.ParseBool
\* accepts, two spellings it rejects, and decimal literals around the ends of
\* the range of int (the last one is 1 behind leading zeros).
ValueChars == {"-", "+", ".", "1", "2", "t", "a"}

ValueTokens ==
    SeqsOf(ValueChars, 0, MaxToken)
        \cup ParseBoolTrue \cup ParseBoolFalse
        \cup {<<"t", "R", "U", "E">>, <<"F", "A", "L", "S", "e">>}
        \cup {MinIntDigits, <<"-">> \o MinIntDigits \o <<"0">>, <<"+">> \o MaxIntDigits \o <<"1">>,
              <<"0", "0", "0", "0", "0", "0", "0", "0", "0", "0", "0", "0", "0", "0", "0",
                "0", "0", "0", "0", "1">>}

\* The parts of the expressions given to parseValueComparison alone: names
\* and value tokens (some hold an operator character, one token a whole
\* operation), the six operations and two separators that are none.
CmpNames == {<<>>, <<"y">>, <<"y", "1">>, <<"y", "<">>}

CmpOps == Comparisons \cup {<<",">>, <<"=">>}

CmpTokens == Tokens \cup {<<>>, <<"-", "1">>, <<"=", "1">>, <<"1", "=", "=", "2">>}

\* The value tokens of the expressions that are parsed and then formatted:
\* floats with and without zeros at the end, with six and with seven
\* decimals and below 0.0001, and other spellings of an int and a bool.
FormatTokens ==
    CmpTokens \cup {<<"1", ".", "0">>, <<"-", "2", ".", "5", "0">>,
                    <<"1", ".", "0", "0", "0", "0", "0", "1">>,
                    <<"1", ".", "0", "0", "0", "0", "0", "0", "1">>,
                    <<"0", ".", "0", "0", "0", "0", "1", "5">>,
                    <<"+", "1">>, <<"0", "1">>, <<"T">>, <<"t", "r", "u", "e">>}

\* Most lines of a stream given to parseBenchmarks.
MaxLines == 3

\* The lines of the streams: benchmarks of two top-level names with and
\* without components and width suffix (variables that are an int, a
\* negative int, floats of one and of seven decimals, a bool and a string, a
\* segment that ends like a width, widths 0, 1 and 2), the bare name
\* Benchmark, a line that is no benchmark's, a blank line and a PASS banner;
\* an iteration count that is an int or not; no time per operation, one of
\* one or of three decimals, or one that is no float.
LineNames ==
    {BenchmarkPrefix \o tail :
        tail \in {<<"a">>, <<"a", "/", "y", "=", "1">>, <<"a", "/", "s", "-", "2">>,
                  <<"a", "/", "y", "=", "1", ".", "5", "/", "z", "=", "t">>,
                  <<"a", "/", "y", "=", "0", ".", "0", "0", "0", "0", "0", "0", "1">>,
                  <<"a", "/", "s", "-", "2", "-", "1">>, <<"a", "/", "s", "-", "0">>,
                  <<"b">>, <<"b", "/", "y", "=", "-", "2", "/", "z", "=", "a">>, <<>>}}
        \cup {<<"o", "k">>}

TextLine(name, n, ns) ==
    name \o <<" ">> \o n \o (IF ns = <<>> THEN <<>> ELSE <<" ">> \o ns \o <<" ">> \o NsPerOpUnit)

Lines ==
    {TextLine(n, <<"1">>, <<>>) : n \in LineNames}
        \cup {TextLine(BenchmarkPrefix \o <<"a">>, <<"2">>, <<"1", ".", "5">>),
              TextLine(BenchmarkPrefix \o <<"b">>, <<"2">>, <<"1", ".", "2", "5", "1">>),
              TextLine(BenchmarkPrefix \o <<"b">>, <<"2">>, <<"a">>),
              TextLine(BenchmarkPrefix \o <<"a">>, <<"a">>, <<>>)}
        \cup {<<>>, <<"P", "A", "S", "S">>}

\* The names decomposed and rendered again: a top-level name, up to
\* MaxSubs components (variables whose value is an int in three spellings, a
\* float, a bool in two spellings or a string, an empty name, segments) and
\* a width suffix or none.
StringComponents ==
    {<<"y", "=", "1">>, <<"y", "=", "+", "1">>, <<"y", "=", "0", "1">>,
     <<"y", "=", "-", "2">>, <<"y", "=", "1", ".", "5">>, <<"y", "=", "t">>,
     <<"y", "=", "t", "r", "u", "e">>, <<"y", "=", "a">>, <<"=", "a">>,
     <<"s">>, <<>>, <<"a", "=", "b", "=", "c">>}

StringSuffixes == {<<>>, <<"-", "0">>, <<"-", "1">>, <<"-", "2">>, <<"-", "0", "2">>}

StringNames ==
    {BenchmarkPrefix \o top \o Join([i \in DOMAIN c |-> <<"/">> \o c[i]], <<>>) \o suffix :
        top \in {<<>>, <<"a">>}, c \in SeqsOf(StringComponents, 0, MaxSubs),
        suffix \in StringSuffixes}

(***************************************************************************)
(* Specifications                                                          *)
(***************************************************************************)

Init ==
    /\ pc = "start"
    /\ results = <<>>
    /\ args = <<>>
    /\ ret = <<>>

\* One line of benchmark output is parsed and its result appended (the body
\* of the loop of parseBenchmarks for a benchmark of one top-level name); the
\* outputs of the line are stood for by its number.
ParseLine ==
    /\ pc = "start"
    /\ Len(results) < MaxResults
    /\ \E name \in BenchNames :
          LET info == parseInfo(name)
          IN /\ info.err = "nil"
             /\ results' = Append(results, BenchRes(info.Inputs, Len(results) + 1))
    /\ UNCHANGED <<pc, args, ret>>

\* All six operations on one pair of variables.
CompareCall ==
    /\ pc = "start"
    /\ results = <<>>
    /\ \E v1 \in CompareVars, v2 \in CompareVars :
          /\ args' = [v1 |-> v1, v2 |-> v2]
          /\ ret' = [c \in Comparisons |-> compare(c, v1, v2)]
    /\ pc' = "compare"
    /\ UNCHANGED results

FilterCall ==
    /\ pc = "start"
    /\ \E filterExpr \in FilterExprs :
          /\ args' = [filterExpr |-> filterExpr]
          /\ ret' = Filter(results, filterExpr)
    /\ pc' = "Filter"
    /\ UNCHANGED results

\* The list a Filter returned is filtered by the same expression.
FilterAgainCall ==
    /\ pc = "Filter"
    /\ ret.err = "nil"
    /\ ret' = [first |-> ret.filtered, again |-> Filter(ret.filtered, args.filterExpr)]
    /\ pc' = "FilterAgain"
    /\ UNCHANGED <<results, args>>

\* args keeps the list as it was given and which buckets share its array.
GroupCall ==
    /\ pc = "start"
    /\ \E groupBy \in GroupBys :
          /\ args' = [groupBy |-> groupBy, b |-> results, shared |-> GroupShared(groupBy)]
          /\ ret' = Group(results, groupBy)
    /\ pc' = "Group"
    /\ UNCHANGED results

\* The result a caller of Group may store into a bucket.
Overwritten == BenchRes(BenchInputs(<<>>, <<>>, 1), 0)

\* The caller assigns to the m-th element of a bucket: the write goes to the
\* bucket's backing array, which is that of the list given if it is shared.
BucketWrite ==
    /\ pc = "Group"
    /\ \E k \in DOMAIN ret : \E m \in DOMAIN ret[k] :
          /\ ret' = [ret EXCEPT ![k][m] = Overwritten]
          /\ results' = IF k \in args.shared THEN [results EXCEPT ![m] = Overwritten]
                         ELSE results
    /\ pc' = "written"
    /\ UNCHANGED args

Next ==
    ParseLine \/ CompareCall \/ FilterCall \/ FilterAgainCall \/ GroupCall \/ BucketWrite

Spec == Init /\ [][Next]_vars

\* Comparison alone.
SpecCompare == Init /\ [][CompareCall]_vars

\* The list is filtered by two expressions, alone and one after the other in
\* both orders.
FilterPairCall ==
    /\ pc = "start"
    /\ \E e1 \in ChainExprs, e2 \in ChainExprs :
          \E r1 \in {Filter(results, e1)}, r2 \in {Filter(results, e2)} :
              /\ args' = [e1 |-> e1, e2 |-> e2]
              /\ ret' = [first |-> r1, second |-> r2,
                         firstSecond |-> FilterNext(r1, e2),
                         secondFirst |-> FilterNext(r2, e1)]
    /\ pc' = "FilterPair"
    /\ UNCHANGED results

NextChain == ParseLine \/ FilterPairCall

SpecChain == Init /\ [][NextChain]_vars

\* parseInfo alone: the name is chosen, then decomposed.
InitInfo ==
    /\ pc = "start"
    /\ results = <<>>
    /\ args \in {[s |-> s] : s \in InfoNames}
    /\ ret = <<>>

ParseInfoCall ==
    /\ pc = "start"
    /\ ret' = parseInfo(args.s)
    /\ pc' = "parseInfo"
    /\ UNCHANGED <<results, args>>

SpecInfo == InitInfo /\ [][ParseInfoCall]_vars

\* A name is decomposed, then its inputs are rendered.
InitString ==
    /\ pc = "start"
    /\ results = <<>>
    /\ args \in {[s |-> s] : s \in StringNames}
    /\ ret = <<>>

InputsStringCall ==
    /\ pc = "parseInfo"
    /\ ret.err = "nil"
    /\ \E str \in BenchInputsString(ret.Inputs) :
          ret' = [name |-> ret.name, Inputs |-> ret.Inputs, err |-> ret.err, String |-> str]
    /\ pc' = "String"
    /\ UNCHANGED <<results, args>>

NextString == ParseInfoCall \/ InputsStringCall

SpecString == InitString /\ [][NextString]_vars

\* value alone: the token is chosen, then typed.
InitValue ==
    /\ pc = "start"
    /\ results = <<>>
    /\ args \in {[s |-> s] : s \in ValueTokens}
    /\ ret = <<>>

ValueCall ==
    /\ pc = "start"
    /\ ret' = value(args.s)
    /\ pc' = "value"
    /\ UNCHANGED <<results, args>>

SpecValue == InitValue /\ [][ValueCall]_vars

\* parseValueComparison alone: the expression is put together, then parsed.
InitCmp ==
    /\ pc = "start"
    /\ results = <<>>
    /\ args \in {[n |-> n, op |-> op, v |-> v] :
                    n \in CmpNames, op \in CmpOps, v \in CmpTokens}
    /\ ret = <<>>

ParseValueComparisonCall ==
    /\ pc = "start"
    /\ ret' = parseValueComparison(args.n \o args.op \o args.v)
    /\ pc' = "parseValueComparison"
    /\ UNCHANGED <<results, args>>

SpecCmp == InitCmp /\ [][ParseValueComparisonCall]_vars

\* parseValueComparison, then String of what it returned.
InitFormat ==
    /\ pc = "start"
    /\ results = <<>>
    /\ args \in {[n |-> n, op |-> op, v |-> v] :
                    n \in CmpNames, op \in CmpOps, v \in FormatTokens}
    /\ ret = <<>>

VarValCompStringCall ==
    /\ pc = "parseValueComparison"
    /\ ret.err = "nil"
    /\ ret' = [parsed |-> ret, String |-> varValCompString(ret)]
    /\ pc' = "String"
    /\ UNCHANGED <<results, args>>

NextFormat == ParseValueComparisonCall \/ VarValCompStringCall

SpecFormat == InitFormat /\ [][NextFormat]_vars

\* parseBenchmarks: args is the stream read so far, ret the map while the
\* scanner has lines, then what the call returns.
InitParse ==
    /\ pc = "scan"
    /\ results = <<>>
    /\ args = <<>>
    /\ ret = EmptyMap

\* scanner.Scan returns true: the next line goes through the loop body.
ScanLine ==
    /\ pc = "scan"
    /\ Len(args) < MaxLines
    /\ \E line \in Lines : \E r \in {scanLine(ret, line)} :
          /\ args' = Append(args, line)
          /\ ret' = r.benchmarks
          /\ pc' = IF r.err = "nil" THEN "scan" ELSE "error"
    /\ UNCHANGED results

\* scanner.Scan returns false: the values of the map are copied to the
\* slice returned, in the order the range over the map yields them.
ScanEnd ==
    /\ pc = "scan"
    /\ \E o \in KeyOrders(ret) :
          ret' = [i \in DOMAIN o |-> ret[o[i]]]
    /\ pc' = "done"
    /\ UNCHANGED <<results, args>>

\* scanner.Scan returns false after a failed read: scanner.Err is not nil,
\* nil is returned with it.
ScanErr ==
    /\ pc = "scan"
    /\ ret' = <<>>
    /\ pc' = "readError"
    /\ UNCHANGED <<results, args>>

NextParse == ScanLine \/ ScanEnd \/ ScanErr

SpecParse == InitParse /\ [][NextParse]_vars

\* One of the benchmarks returned is rendered by Benchmark.String.
BenchmarkStringCall ==
    /\ pc = "done"
    /\ \E i \in DOMAIN ret : \E text \in BenchmarkString(ret[i]) :
          /\ args' = [bench |-> ret[i]]
          /\ ret' = text
    /\ pc' = "String"
    /\ UNCHANGED results

\* The rendered text is given to ParseBenchmarks.
ParseRenderedCall ==
    /\ pc = "String"
    /\ \E r \in parseBenchmarks(ret) : ret' = r
    /\ pc' = "parsed"
    /\ UNCHANGED <<results, args>>

NextRender == ScanLine \/ ScanEnd \/ BenchmarkStringCall \/ ParseRenderedCall

SpecRender == InitParse /\ [][NextRender]_vars

(***************************************************************************)
(* Properties of the comparison                                            *)
(***************************************************************************)

BothNumeric(a, b) == a.kind \in {"int", "float64"} /\ b.kind \in {"int", "float64"}

\* The number a numeric value of the model stands for, in halves.
Halves(v) == IF v.kind = "int" THEN 2 * v.num ELSE v.num \div (FloatDen \div 2)

\* a sorts before b: b continues a, or they first differ at a smaller byte of a.
LexLess(a, b) ==
    \E k \in 1..Len(b) :
        /\ k <= Len(a) + 1
        /\ \A i \in 1..(k - 1) : a[i] = b[i]
        /\ k = Len(a) + 1 \/ CharCode[a[k]] < CharCode[b[k]]

\* C6: for two values of the same name, Eq and Ne compare numerically when
\* both kinds are numeric (int and float64 in any combination), by native
\* equality when both are strings or both booleans, fail with
\* errNonComparable exactly when the kinds differ and are not both numeric,
\* and Ne is the negation of Eq.
C6_EqNeByKind ==
    (pc = "compare" /\ args.v1.Name = args.v2.Name) =>
        LET a == args.v1.Value
            b == args.v2.Value
        IN /\ BothNumeric(a, b) => ret[Eq] = Ok(Halves(a) = Halves(b))
           /\ (a.kind = "string" /\ b.kind = "string") => ret[Eq] = Ok(a.s = b.s)
           /\ (a.kind = "bool" /\ b.kind = "bool") => ret[Eq] = Ok(a.b <=> b.b)
           /\ (ret[Eq].err = "errNonComparable") <=> (a.kind # b.kind /\ ~BothNumeric(a, b))
           /\ ret[Eq].err \in {"nil", "errNonComparable"}
           /\ ret[Ne].err = ret[Eq].err
           /\ ret[Eq].err = "nil" => (ret[Ne].res <=> ~ret[Eq].res)

\* An int and a float64 of the same name that stand for the same number have
\* been compared, and Eq found them equal.
C6_Witness ==
    /\ pc = "compare"
    /\ args.v1.Name = args.v2.Name
    /\ args.v1.Value.kind = "int"
    /\ args.v2.Value.kind = "float64"
    /\ ret[Eq] = Ok(TRUE)
    /\ ret[Ne] = Ok(FALSE)

\* C7: for two values of the same name, Lt compares numerically when both
\* kinds are numeric, lexicographically when both are strings, fails with
\* errOperationNotDefined when both are booleans and with errNonComparable
\* when the kinds differ and are not both numeric.
C7_LtByKind ==
    (pc = "compare" /\ args.v1.Name = args.v2.Name) =>
        LET a == args.v1.Value
            b == args.v2.Value
        IN /\ BothNumeric(a, b) => ret[Lt] = Ok(Halves(a) < Halves(b))
           /\ (a.kind = "string" /\ b.kind = "string") => ret[Lt] = Ok(LexLess(a.s, b.s))
           /\ (a.kind = "bool" /\ b.kind = "bool") => ret[Lt] = Err("errOperationNotDefined")
           /\ (a.kind # b.kind /\ ~BothNumeric(a, b)) => ret[Lt] = Err("errNonComparable")

\* Two booleans of the same name, false and true, have been compared with Lt.
C7_Witness ==
    /\ pc = "compare"
    /\ args.v1.Name = args.v2.Name
    /\ args.v1.Value = BoolV(FALSE)
    /\ args.v2.Value = BoolV(TRUE)
    /\ ret[Lt].err = "errOperationNotDefined"

(***************************************************************************)
(* Properties of Filter                                                    *)
(***************************************************************************)

\* The comparison Filter makes of the j-th variable of the i-th result.
FilterCmp(i, j) ==
    LET p == parseValueComparison(args.filterExpr)
    IN compare(p.cmp, results[i].Inputs.VarValues[j], p.varValue)

\* Filter reaches the j-th variable of the i-th result unless an earlier
\* variable of that result compared true.
FilterCompares(i, j) == \A k \in 1..(j - 1) : FilterCmp(i, k) # Ok(TRUE)

\* C1: when Filter returns no error, it returns exactly the results with at
\* least one variable of the filter's name for which the comparison with the
\* filter's value is true, each once and in the input order; a result with
\* no variable of that name is left out, for != too.
C1_FilterKeepsMatches ==
    (pc = "Filter" /\ ret.err = "nil") =>
        LET p == parseValueComparison(args.filterExpr)
            Matches(res) ==
                \E j \in DOMAIN res.Inputs.VarValues :
                    /\ res.Inputs.VarValues[j].Name = p.varValue.Name
                    /\ compare(p.cmp, res.Inputs.VarValues[j], p.varValue) = Ok(TRUE)
        IN /\ ~ret.isNil
           /\ ret.filtered = SelectSeq(results, Matches)

\* A != filter ran over two results, one with no variable of the filter's
\* name and one with two variables that both match, and kept only the latter.
C1_Witness ==
    /\ pc = "Filter"
    /\ ret.err = "nil"
    /\ Len(results) = 2
    /\ parseValueComparison(args.filterExpr).cmp = Ne
    /\ \E i \in DOMAIN results :
          \A j \in DOMAIN results[i].Inputs.VarValues :
              FilterCmp(i, j).err = "errDifferentNames"
    /\ \E i \in DOMAIN results :
          /\ Len(results[i].Inputs.VarValues) = 2
          /\ \A j \in 1..2 : FilterCmp(i, j) = Ok(TRUE)
          /\ ret.filtered = <<results[i]>>

\* C2: errDifferentNames from the comparison of one variable only skips that
\* variable; any other error of a comparison Filter makes aborts it: Filter
\* returns that error and a nil list, whatever had matched before.
C2_FilterAborts ==
    (pc = "Filter" /\ parseValueComparison(args.filterExpr).err = "nil") =>
        LET Hard ==
                {h \in UNION {{<<i, j>> : j \in DOMAIN results[i].Inputs.VarValues} :
                                 i \in DOMAIN results} :
                    /\ FilterCmp(h[1], h[2]).err \notin {"nil", "errDifferentNames"}
                    /\ FilterCompares(h[1], h[2])}
            Before(h, g) == h[1] < g[1] \/ (h[1] = g[1] /\ h[2] <= g[2])
        IN IF Hard = {} THEN ret.err = "nil"
           ELSE LET first == CHOOSE h \in Hard : \A g \in Hard : Before(h, g)
                IN ret = [filtered |-> <<>>, isNil |-> TRUE,
                          err |-> FilterCmp(first[1], first[2]).err]

\* The first result skipped a variable of another name and matched, the
\* second could not be compared, and Filter returned the error and nil.
C2_Witness ==
    /\ pc = "Filter"
    /\ Len(results) = 2
    /\ Len(results[1].Inputs.VarValues) = 2
    /\ Len(results[2].Inputs.VarValues) >= 1
    /\ FilterCmp(1, 1).err = "errDifferentNames"
    /\ FilterCmp(1, 2) = Ok(TRUE)
    /\ FilterCmp(2, 1).err = "errNonComparable"
    /\ ret.isNil
    /\ ret.err = "errNonComparable"

\* C8: the comparison of two values of different names fails with
\* errDifferentNames for each of the six operations, whatever their kinds,
\* so Filter aborts only on a variable of the filter's own name.
C8_DifferentNamesFirst ==
    /\ (pc = "compare" /\ args.v1.Name # args.v2.Name) =>
           \A c \in Comparisons : ret[c] = Err("errDifferentNames")
    /\ (pc = "Filter" /\ ret.err \notin {"nil", "errMalformedFilter"}) =>
           \E i \in DOMAIN results : \E j \in DOMAIN results[i].Inputs.VarValues :
               /\ results[i].Inputs.VarValues[j].Name
                      = parseValueComparison(args.filterExpr).varValue.Name
               /\ FilterCmp(i, j).err = ret.err

\* A < filter on a number kept a result that also has a string variable of
\* another name.
C8_Witness ==
    /\ pc = "Filter"
    /\ ret.err = "nil"
    /\ parseValueComparison(args.filterExpr).cmp = Lt
    /\ isNumeric(parseValueComparison(args.filterExpr).varValue.Value.kind)
    /\ \E i \in DOMAIN results :
          /\ Len(results[i].Inputs.VarValues) = 2
          /\ results[i].Inputs.VarValues[1].Value.kind = "string"
          /\ FilterCmp(i, 1).err = "errDifferentNames"
          /\ FilterCmp(i, 2) = Ok(TRUE)
          /\ ret.filtered = <<results[i]>>

(***************************************************************************)
(* Properties of Group                                                     *)
(***************************************************************************)

Range(s) == {s[i] : i \in DOMAIN s}

\* The keys of the buckets of the returned map that hold the result res.
BucketsOf(res) == {k \in DOMAIN ret : \E m \in DOMAIN ret[k] : ret[k][m] = res}

\* The variables of res whose name is requested, in the order res has them.
Requested(res, groupBy) ==
    SelectSeq(res.Inputs.VarValues, LAMBDA v : v.Name \in Range(groupBy))

\* How many variables of res have the name n.
NameCount(res, n) ==
    Cardinality({j \in DOMAIN res.Inputs.VarValues : res.Inputs.VarValues[j].Name = n})

NoRepeat(s) == \A i, j \in DOMAIN s : s[i] = s[j] => i = j

\* s and t hold the same elements the same number of times.
IsPermutation(s, t) ==
    /\ Len(s) = Len(t)
    /\ \A x \in Range(s) \cup Range(t) :
          Cardinality({i \in DOMAIN s : s[i] = x}) = Cardinality({i \in DOMAIN t : t[i] = x})

\* C3: for a non-empty group-by list, a result is in a bucket if and only if
\* every requested name is the name of at least one of its variables; then
\* it is in exactly one bucket, otherwise in none.
C3_BucketIffAllNames ==
    (pc = "Group" /\ Len(args.groupBy) > 0) =>
        \A i \in DOMAIN results :
            IF \A n \in Range(args.groupBy) : NameCount(results[i], n) >= 1
            THEN Cardinality(BucketsOf(results[i])) = 1
            ELSE BucketsOf(results[i]) = {}

\* C4: the key of a result's bucket is the comma-joined name=value rendering
\* of its requested variables in the order of its own variable sequence, and
\* a bucket holds its results in the order they were met.
C4_KeyOfRequestedVariables ==
    (pc = "Group" /\ Len(args.groupBy) > 0) =>
        \A k \in DOMAIN ret :
            /\ \A m \in DOMAIN ret[k] :
                  k = benchVarValuesString(Requested(ret[k][m], args.groupBy))
            /\ \A m1, m2 \in DOMAIN ret[k] :
                  m1 < m2 => ret[k][m1].Outputs < ret[k][m2].Outputs

\* The variable of res named n (where there is exactly one).
VarNamed(res, n) ==
    res.Inputs.VarValues[CHOOSE j \in DOMAIN res.Inputs.VarValues :
                             res.Inputs.VarValues[j].Name = n]

\* C5 as stated: the key lists its pairs in the order of the group-by list
\* (for a result that has each requested name once).
C5_KeyInGroupByOrder ==
    (pc = "Group" /\ Len(args.groupBy) > 0 /\ NoRepeat(args.groupBy)) =>
        \A k \in DOMAIN ret : \A m \in DOMAIN ret[k] :
            (\A n \in Range(args.groupBy) : NameCount(ret[k][m], n) = 1) =>
                k = benchVarValuesString(
                        [n \in 1..Len(args.groupBy) |-> VarNamed(ret[k][m], args.groupBy[n])])

\* C5 as amended: the key lists its pairs in the order the variables have in
\* the case name, whatever the order of the group-by list: every permutation
\* of the group-by list gives the same map, and under a group-by list of
\* distinct names the key is the rendering of the requested variables in the
\* result's own order.
C5_KeyInVariableOrder ==
    pc = "Group" =>
        /\ \A g \in GroupBys : IsPermutation(g, args.groupBy) => Group(results, g) = ret
        /\ (Len(args.groupBy) > 0 /\ NoRepeat(args.groupBy)) =>
               \A k \in DOMAIN ret : \A m \in DOMAIN ret[k] :
                   k = benchVarValuesString(Requested(ret[k][m], args.groupBy))

\* A result whose variables are y then z was grouped by z then y and is in
\* the bucket whose key starts with its y.
C5_Witness ==
    /\ pc = "Group"
    /\ args.groupBy = <<<<"z">>, <<"y">>>>
    /\ \E i \in DOMAIN results :
          /\ Len(results[i].Inputs.VarValues) = 2
          /\ results[i].Inputs.VarValues[1].Name = <<"y">>
          /\ results[i].Inputs.VarValues[2].Name = <<"z">>
          /\ \E k \in BucketsOf(results[i]) : HasPrefix(k, <<"y", "=">>)

(***************************************************************************)
(* Properties of parseInfo                                                 *)
(***************************************************************************)

CountOf(s, c) == Cardinality({i \in DOMAIN s : s[i] = c})

\* C9: every slash-separated component after the first becomes exactly one
\* entry, at its index: a variable (the text before the "=" as name, the
\* value of the text after it) when it holds exactly one "=", a free segment
\* named by its whole text otherwise; none is dropped.
C9_OneEntryPerComponent ==
    (pc = "parseInfo" /\ ret.err = "nil") =>
        LET comps == Split(FindStringSubmatch(args.s)[2], <<"/">>)
            vv == ret.Inputs.VarValues
            ss == ret.Inputs.Subs
        IN /\ Len(vv) + Len(ss) = CountOf(args.s, "/")
           /\ Len(comps) = CountOf(args.s, "/") + 1
           /\ \A i \in 1..(Len(comps) - 1) :
                 LET c == comps[i + 1]
                     atV == {j \in DOMAIN vv : vv[j].position = i}
                     atS == {j \in DOMAIN ss : ss[j].position = i}
                     eq == CHOOSE e \in DOMAIN c : c[e] = "="
                 IN IF CountOf(c, "=") = 1
                    THEN /\ atS = {}
                         /\ Cardinality(atV) = 1
                         /\ \A j \in atV :
                               /\ vv[j].Name = SubSeq(c, 1, eq - 1)
                               /\ vv[j].Value = value(SubSeq(c, eq + 1, Len(c)))
                    ELSE /\ atV = {}
                         /\ Cardinality(atS) = 1
                         /\ \A j \in atS : ss[j].Name = c

\* A name was decomposed into a variable and a free segment that holds two "=".
C9_Witness ==
    /\ pc = "parseInfo"
    /\ ret.err = "nil"
    /\ Len(ret.Inputs.VarValues) = 1
    /\ \E j \in DOMAIN ret.Inputs.Subs : CountOf(ret.Inputs.Subs[j].Name, "=") = 2

\* The name ends with a hyphen and a run of digits.
HasWidthSuffix(s) ==
    LET d == TrailingDigits(s)
    IN d # <<>> /\ Len(s) > Len(d) /\ s[Len(s) - Len(d)] = "-"

\* C10: MaxProcs is the value of the trailing -<digits> run of the name
\* whenever the name ends with one, the run being removed before the last
\* component is classified, and is 1 when the name has no such suffix.
C10_MaxProcsFromSuffix ==
    (pc = "parseInfo" /\ ret.err = "nil") =>
        LET d == TrailingDigits(args.s)
            stripped == SubSeq(args.s, 1, Len(args.s) - Len(d) - 1)
            bySub == Split(stripped, <<"/">>)
        IN IF HasWidthSuffix(args.s)
           THEN /\ ret.Inputs.MaxProcs = DigitsVal(d)
                /\ ret.name = bySub[1]
                /\ parseSubs(bySub, 0, <<>>, <<>>)
                       = [VarValues |-> ret.Inputs.VarValues, Subs |-> ret.Inputs.Subs]
           ELSE ret.Inputs.MaxProcs = 1

(***************************************************************************)
(* Properties of value                                                     *)
(***************************************************************************)

\* s is a base-10 signed integer literal: an optional sign, then digits.
IsIntLiteral(s) ==
    \E k \in 0..1 :
        /\ Len(s) > k
        /\ k = 1 => s[1] \in {"+", "-"}
        /\ \A i \in (k + 1)..Len(s) : s[i] \in Digits

\* s is a decimal floating-point literal: an optional sign, then digits
\* around at most one point, with a digit somewhere.
IsFloatLiteral(s) ==
    \E k \in 0..1 :
        /\ k = 1 => (s # <<>> /\ s[1] \in {"+", "-"})
        /\ \A i \in (k + 1)..Len(s) : s[i] \in Digits \cup {"."}
        /\ \E i \in (k + 1)..Len(s) : s[i] \in Digits
        /\ CountOf(s, ".") <= 1

C12_BooleanOnlyTrueFalse ==
    (pc = "value" /\ ~IsIntLiteral(args.s) /\ ~IsFloatLiteral(args.s)) =>
        IF args.s = <<"t", "r", "u", "e">> THEN ret = BoolV(TRUE)
        ELSE IF args.s = <<"f", "a", "l", "s", "e">> THEN ret = BoolV(FALSE)
        ELSE ret = StrV(args.s)

\* C12 as amended: a token that is neither an integer nor a float literal is
\* typed bool exactly when it is one of the spellings t, T, TRUE, true, True
\* (true) and f, F, FALSE, false, False (false); every other such token is
\* typed string, unchanged.
C12_BooleanSpellings ==
    (pc = "value" /\ ~IsIntLiteral(args.s) /\ ~IsFloatLiteral(args.s)) =>
        IF args.s \in {<<"t">>, <<"T">>, <<"T", "R", "U", "E">>, <<"t", "r", "u", "e">>,
                       <<"T", "r", "u", "e">>}
        THEN ret = BoolV(TRUE)
        ELSE IF args.s \in {<<"f">>, <<"F">>, <<"F", "A", "L", "S", "E">>,
                            <<"f", "a", "l", "s", "e">>, <<"F", "a", "l", "s", "e">>}
             THEN ret = BoolV(FALSE)
             ELSE ret = StrV(args.s)

\* The one-letter token t was typed bool.
C12_Witness ==
    /\ pc = "value"
    /\ args.s = <<"t">>
    /\ ret = BoolV(TRUE)

(***************************************************************************)
(* Properties of parseValueComparison                                      *)
(***************************************************************************)

NoOperatorChar(s) == \A i \in DOMAIN s : s[i] \notin {"=", "!", "<", ">"}

\* C13: for a name n and a value token v that hold no operator character,
\* parseValueComparison(n + op + v) returns the name n, the operation op and
\* value(v) for each of the six operations; n<=v is Le and n>=v is Ge, not
\* Lt or Gt with a value that starts with "=".
C13_ParsesEachOperation ==
    (/\ pc = "parseValueComparison"
     /\ args.op \in Comparisons
     /\ NoOperatorChar(args.n)
     /\ NoOperatorChar(args.v)) =>
        /\ ret.err = "nil"
        /\ ret.cmp = args.op
        /\ ret.varValue.Name = args.n
        /\ ret.varValue.Value = value(args.v)
        /\ ret.cmp \in {Lt, Gt} => ~HasPrefix(FormatValue(ret.varValue.Value), <<"=">>)

\* y<=1 was parsed as the name y, Le and the int 1.
C13_Witness ==
    /\ pc = "parseValueComparison"
    /\ args = [n |-> <<"y">>, op |-> Le, v |-> <<"1">>]
    /\ ret = [varValue |-> BenchVarValue(<<"y">>, IntV(1), 0), cmp |-> Le, err |-> "nil"]

(***************************************************************************)
(* Properties of parseBenchmarks                                           *)
(***************************************************************************)

\* The lines read so far that are a benchmark's, parsed.
Accepted ==
    LET lines == SelectSeq(args, LAMBDA l : parseLine(l).ok)
    IN [i \in DOMAIN lines |-> parseLine(lines[i])]

\* The benchmarks gathered: the values of the map while scanning, the
\* elements of the slice once returned.
Gathered == {ret[k] : k \in DOMAIN ret}

\* C14: after any sequence of lines consumed without error there is exactly
\* one benchmark for every top-level name seen, none without results, and the
\* results of each are the parsed lines of that name in the order of the
\* stream.
C14_OneCasePerName ==
    pc \in {"scan", "done"} =>
        LET names == {parseInfo(Accepted[i].Name).name : i \in DOMAIN Accepted}
            OfName(n) == SelectSeq(Accepted, LAMBDA l : parseInfo(l.Name).name = n)
        IN /\ {b.Name : b \in Gathered} = names
           /\ Cardinality(DOMAIN ret) = Cardinality(names)
           /\ \A b \in Gathered :
                 /\ b.Results # <<>>
                 /\ b.Results =
                        [i \in DOMAIN OfName(b.Name) |->
                            BenchRes(parseInfo(OfName(b.Name)[i].Name).Inputs,
                                     OfName(b.Name)[i].Outputs)]
           /\ pc = "scan" => \A k \in DOMAIN ret : ret[k].Name = k

\* Three lines of two names were read, the lines of the first name around
\* the line of the second, and the first benchmark holds its two in order.
C14_Witness ==
    /\ pc = "done"
    /\ Len(args) = 3
    /\ \A i \in 1..3 : parseLine(args[i]).ok
    /\ parseInfo(parseLine(args[1]).Name).name = parseInfo(parseLine(args[3]).Name).name
    /\ parseInfo(parseLine(args[1]).Name).name # parseInfo(parseLine(args[2]).Name).name
    /\ args[1] # args[3]
    /\ Len(ret) = 2
    /\ \E i \in DOMAIN ret : Len(ret[i].Results) = 2

(***************************************************************************)
(* Properties of BenchInputs.String                                        *)
(***************************************************************************)

\* The entry of the inputs at position p, if there is exactly one.
InputAt(inputs, p) ==
    LET all == inputs.VarValues \o inputs.Subs
    IN all[CHOOSE i \in DOMAIN all : all[i].position = p]

\* The components of the name s after the top-level name, its width suffix
\* (what parseInfo takes for one) removed.
ComponentsOf(s) == Tail(Split(FindStringSubmatch(s)[2], <<"/">>))

\* C15 as stated: for every name parseInfo accepts whose variables are not
\* floats, the top-level name followed by the rendering of the inputs is the
\* original name, character for character.
C15_NameRoundTrip ==
    (/\ pc = "String"
     /\ \A i \in DOMAIN ret.Inputs.VarValues : ret.Inputs.VarValues[i].Value.kind # "float64") =>
        ret.name \o ret.String = args.s

\* C15 as amended: the top-level name followed by the rendering of the
\* inputs is the original name exactly when every variable's token is the
\* rendering of its own value (an int without plus sign or leading zeros,
\* true or false in lower case, or a string) and the width suffix, if any, is
\* a number above 1 without leading zeros; otherwise the rendering differs
\* from the original name.
C15_CanonicalNameRoundTrip ==
    (/\ pc = "String"
     /\ \A i \in DOMAIN ret.Inputs.VarValues : ret.Inputs.VarValues[i].Value.kind # "float64") =>
        LET sub == FindStringSubmatch(args.s)
            comps == ComponentsOf(args.s)
            Token(c) == SubSeq(c, Index(c, <<"=">>) + 1, Len(c))
            variables == {i \in DOMAIN comps : CountOf(comps[i], "=") = 1}
            plain == \A i \in variables :
                        /\ Token(comps[i]) \notin {<<"t">>, <<"T">>, <<"T", "R", "U", "E">>,
                                                   <<"T", "r", "u", "e">>, <<"f">>, <<"F">>,
                                                   <<"F", "A", "L", "S", "E">>,
                                                   <<"F", "a", "l", "s", "e">>}
                        /\ IsIntLiteral(Token(comps[i])) =>
                               /\ Head(Token(comps[i])) # "+"
                               /\ StripZeros(Unsigned(Token(comps[i]))) = Unsigned(Token(comps[i]))
                                      \/ Token(comps[i]) = <<"0">>
            suffixPlain == sub[3] = <<>> \/ (Head(sub[3]) # "0" /\ sub[3] # <<"1">>)
        IN (ret.name \o ret.String = args.s) <=> (plain /\ suffixPlain)

\* A name with a segment, an int variable and the width 2 came back as it was.
C15_Witness ==
    /\ pc = "String"
    /\ Len(ret.Inputs.VarValues) = 1
    /\ ret.Inputs.VarValues[1].Value.kind = "int"
    /\ Len(ret.Inputs.Subs) = 1
    /\ ret.Inputs.MaxProcs = 2
    /\ ret.name \o ret.String = args.s

\* C17: BenchInputs.String emits variables and segments as one sequence in
\* the order of their positions, each behind a "/", and ends with a hyphen
\* and MaxProcs if and only if MaxProcs is above 1.
C17_MergedByPosition ==
    pc = "String" =>
        LET n == Len(ret.Inputs.VarValues) + Len(ret.Inputs.Subs)
            Piece(p) ==
                LET e == InputAt(ret.Inputs, p)
                IN IF e \in Range(ret.Inputs.VarValues)
                   THEN <<"/">> \o e.Name \o <<"=">> \o FormatValue(e.Value)
                   ELSE <<"/">> \o e.Name
            body == Join([p \in 1..n |-> Piece(p)], <<>>)
        IN /\ ret.Inputs.MaxProcs > 1 => ret.String = body \o <<"-">> \o Itoa(ret.Inputs.MaxProcs)
           /\ ret.Inputs.MaxProcs <= 1 => ret.String = body

\* A segment behind a variable was rendered behind it, with the width 2.
C17_Witness ==
    /\ pc = "String"
    /\ Len(ret.Inputs.VarValues) = 1
    /\ Len(ret.Inputs.Subs) = 1
    /\ ret.Inputs.VarValues[1].position = 1
    /\ ret.Inputs.Subs[1].position = 2
    /\ ret.Inputs.MaxProcs = 2
    /\ ret.String = <<"/", "y", "=", "1", "/", "s", "-", "2">>

(***************************************************************************)
(* Properties of Benchmark.String                                          *)
(***************************************************************************)

RendersExactly(name, res) ==
    /\ \A j \in DOMAIN res.Inputs.VarValues :
          res.Inputs.VarValues[j].Value.kind = "float64" =>
              res.Inputs.VarValues[j].Value.num % Pow10(FracDigits - 6) = 0
    /\ "NsPerOp" \in res.Outputs.Measured => res.Outputs.NsPerOp % Pow10(FracDigits - 2) = 0
    /\ res.Inputs.MaxProcs = 1 =>
          \A str \in BenchInputsString(res.Inputs) : ~HasWidthSuffix(name \o str)

C18_ComplementaryOperations ==
    pc = "compare" =>
        \A p \in {<<Lt, Ge>>, <<Gt, Le>>, <<Eq, Ne>>} :
            /\ ret[p[1]].err = ret[p[2]].err
            /\ ret[p[1]].err = "nil" => (ret[p[1]].res <=> ~ret[p[2]].res)
            /\ ret[p[1]].err # "nil" => (~ret[p[1]].res /\ ~ret[p[2]].res)

\* Two equal numbers of different kinds were compared: Le and Ge are true,
\* Gt and Lt false.
C18_Witness ==
    /\ pc = "compare"
    /\ args.v1.Value = FloatV(FloatDen)
    /\ args.v2.Value = IntV(1)
    /\ args.v1.Name = args.v2.Name
    /\ ret[Le] = Ok(TRUE) /\ ret[Gt] = Ok(FALSE)
    /\ ret[Ge] = Ok(TRUE) /\ ret[Lt] = Ok(FALSE)

\* C19: Filter is idempotent: when filtering a list by an expression
\* succeeds, filtering the list returned by the same expression succeeds
\* too and returns the same results in the same order.
C19_FilterIdempotent ==
    pc = "FilterAgain" => ret.again = [filtered |-> ret.first, isNil |-> FALSE, err |-> "nil"]

\* A filter kept one of two results, and kept it again.
C19_Witness ==
    /\ pc = "FilterAgain"
    /\ Len(results) = 2
    /\ Len(ret.first) = 1
    /\ ret.again.filtered = ret.first

\* C20: Group with an empty group-by list returns exactly one bucket, under
\* the empty key, that holds all results given in their order (an empty
\* list for an empty input); the bucket is a copy: Group leaves the list
\* given as it was, and so does a later write to the bucket.
C20_EmptyGroupByCopies ==
    (pc \in {"Group", "written"} /\ args.groupBy = <<>>) =>
        /\ DOMAIN ret = {<<>>}
        /\ Len(ret[<<>>]) = Len(results)
        /\ pc = "Group" => ret[<<>>] = results
        /\ results = args.b

\* The one bucket of two results was written to and the list given still
\* holds what it held.
C20_Witness ==
    /\ pc = "written"
    /\ args.groupBy = <<>>
    /\ Len(results) = 2
    /\ ret[<<>>] # results
    /\ results = args.b

(***************************************************************************)
(* Properties of varValComp.String                                         *)
(***************************************************************************)

\* The part of the formatted expression behind the name and the operation.
AfterOperator ==
    SubSeq(ret.String, Len(ret.parsed.varValue.Name) + Len(ret.parsed.cmp) + 1, Len(ret.String))

\* A float that "%f" and "%v" write alike: it is not below 0.0001 and its
\* last decimal that is not zero is the sixth.
HasSixDecimals(u) ==
    LET a == IF u < 0 THEN -u ELSE u
    IN /\ a >= FloatDen \div Pow10(4)
       /\ a % Pow10(FracDigits - 6) = 0
       /\ a % Pow10(FracDigits - 5) # 0

\* C21 (as stated): the formatted expression is the name, the operation and
\* the value as BenchVarValue.String writes it behind "=".
C21_ValueAsVariableString ==
    pc = "String" =>
        /\ HasPrefix(ret.String, ret.parsed.varValue.Name \o ret.parsed.cmp)
        /\ AfterOperator = FormatValue(ret.parsed.varValue.Value)

\* C21: the formatted expression is the name, the operation and the value;
\* the value of an int, a bool or a string is written as
\* BenchVarValue.String writes it behind "=", the value of a float is
\* written so only when it has exactly six decimals: it is written without
\* zeros at its end, and so never longer than in the fixed form.
C21_ValueByDefaultVerb ==
    pc = "String" =>
        LET v == ret.parsed.varValue.Value
        IN /\ HasPrefix(ret.String, ret.parsed.varValue.Name \o ret.parsed.cmp)
           /\ v.kind # "float64" => AfterOperator = FormatValue(v)
           /\ v.kind = "float64" =>
                 /\ (AfterOperator = FormatValue(v)) <=> HasSixDecimals(v.num)
                 /\ AfterOperator[Len(AfterOperator)] # "0" \/ AfterOperator = <<"0">>

\* y>1.5 was formatted as y>1.5, where the variable y=1.5 is written
\* y=1.500000.
C21_Witness ==
    /\ pc = "String"
    /\ ret.parsed.varValue = BenchVarValue(<<"y">>, FloatV(15 * (FloatDen \div 10)), 0)
    /\ ret.String = <<"y", ">", "1", ".", "5">>
    /\ BenchVarValueString(ret.parsed.varValue) = <<"y", "=", "1", ".", "5", "0", "0", "0", "0", "0">>

(***************************************************************************)
(* Further properties of parseBenchmarks                                   *)
(***************************************************************************)

\* The lines read so far that parse.ParseLine accepts.
KeptLines == SelectSeq(args, LAMBDA l : parseLine(l).ok)

\* C22: the lines parse.ParseLine rejects count for nothing: while the
\* scanner has lines the map is the one the accepted lines alone give, the
\* call returns the benchmarks the accepted lines alone give, and it fails
\* only on an accepted line, where the accepted lines alone fail as well.
C22_RejectedLinesSkipped ==
    \E r \in {scanLines(EmptyMap, KeptLines)} :
        /\ pc = "scan" => r.err = "nil" /\ ret = r.benchmarks
        /\ pc = "done" =>
              /\ r.err = "nil"
              /\ Len(ret) = Cardinality(DOMAIN r.benchmarks)
              /\ {ret[i] : i \in DOMAIN ret} = {r.benchmarks[k] : k \in DOMAIN r.benchmarks}
        /\ pc = "error" => r.err # "nil" /\ parseLine(args[Len(args)]).ok

\* A PASS banner stood before a line of a benchmark among three lines: the
\* one benchmark returned has the results of the two lines accepted.
C22_Witness ==
    /\ pc = "done"
    /\ Len(args) = 3
    /\ \E i \in 1..2 : args[i] = <<"P", "A", "S", "S">> /\ parseLine(args[i + 1]).ok
    /\ Len(KeptLines) = 2
    /\ Len(ret) = 1
    /\ Len(ret[1].Results) = 2

\* C23: a call that failed, on a name parseInfo does not decompose or on a
\* read of the stream, returns no benchmark, whatever the lines before had
\* gathered; a name that does not decompose always fails the call.
C23_ErrorReturnsNothing ==
    /\ pc \in {"error", "readError"} => ret = <<>>
    /\ (\E i \in DOMAIN KeptLines : parseInfo(parseLine(KeptLines[i]).Name).err # "nil") =>
          pc \in {"error", "readError"}
    /\ pc = "error" =>
          /\ parseInfo(parseLine(args[Len(args)]).Name).err # "nil"
          /\ \A i \in 1..(Len(KeptLines) - 1) :
                parseInfo(parseLine(KeptLines[i]).Name).err = "nil"

\* Two lines of benchmarks had been gathered when the name of the third did
\* not decompose: nothing is returned.
C23_Witness ==
    /\ pc = "error"
    /\ Len(args) = 3
    /\ Len(KeptLines) = 3
    /\ DOMAIN scanLines(EmptyMap, SubSeq(args, 1, 2)).benchmarks # {}
    /\ ret = <<>>

\* The place among the accepted lines of the first line of the name n.
FirstSeen(n) ==
    CHOOSE i \in DOMAIN Accepted :
        /\ parseInfo(Accepted[i].Name).name = n
        /\ \A j \in 1..(i - 1) : parseInfo(Accepted[j].Name).name # n

\* C28: the benchmarks are returned in the order in which their names first
\* occur in the stream.
C28_FirstSeenOrder ==
    pc = "done" =>
        \A i, j \in DOMAIN ret :
            i < j => FirstSeen(ret[i].Name) < FirstSeen(ret[j].Name)

(***************************************************************************)
(* Further properties of parseInfo                                         *)
(***************************************************************************)

\* C24: for a name of n slash-separated components that parseInfo accepts,
\* the positions of the variables and segments returned are 1..n-1, each
\* taken once; the entry at position p is made of the component of index p
\* (counted from 0); positions grow strictly along the variables and along
\* the segments.
C24_PositionsAreIndices ==
    (pc = "parseInfo" /\ ret.err = "nil") =>
        LET comps == Split(args.s, <<"/">>)
            vv == ret.Inputs.VarValues
            ss == ret.Inputs.Subs
            positions == {vv[j].position : j \in DOMAIN vv} \cup {ss[j].position : j \in DOMAIN ss}
        IN /\ positions = 1..(Len(comps) - 1)
           /\ Cardinality(positions) = Len(vv) + Len(ss)
           /\ \A j, k \in DOMAIN vv : j < k => vv[j].position < vv[k].position
           /\ \A j, k \in DOMAIN ss : j < k => ss[j].position < ss[k].position
           /\ \A j \in DOMAIN vv :
                 HasPrefix(comps[vv[j].position + 1], vv[j].Name \o <<"=">>)
           /\ \A j \in DOMAIN ss :
                 HasPrefix(comps[ss[j].position + 1], ss[j].Name)

\* A segment, a variable and a segment were returned at the positions 1, 2
\* and 3.
C24_Witness ==
    /\ pc = "parseInfo"
    /\ ret.err = "nil"
    /\ Len(ret.Inputs.VarValues) = 1
    /\ ret.Inputs.VarValues[1].position = 2
    /\ Len(ret.Inputs.Subs) = 2
    /\ ret.Inputs.Subs[1].position = 1
    /\ ret.Inputs.Subs[2].position = 3

(***************************************************************************)
(* Further properties of the comparison                                    *)
(***************************************************************************)

\* C25: with the outcomes of Eq and Lt for the checks equal and less, Gt is
\* not equal and not less, Le is equal or less and Ge is not less; when a
\* check fails the operation fails with the error of that check, equal
\* before less for Gt and Le, and with no other error; on two booleans of
\* one name Eq succeeds while Gt and Le fail with errOperationNotDefined.
C25_DerivedFromEqualAndLess ==
    pc = "compare" =>
        /\ ret[Gt] = IF ret[Eq].err # "nil" THEN Err(ret[Eq].err)
                     ELSE IF ret[Lt].err # "nil" THEN Err(ret[Lt].err)
                     ELSE Ok(~ret[Eq].res /\ ~ret[Lt].res)
        /\ ret[Le] = IF ret[Eq].err # "nil" THEN Err(ret[Eq].err)
                     ELSE IF ret[Lt].err # "nil" THEN Err(ret[Lt].err)
                     ELSE Ok(ret[Eq].res \/ ret[Lt].res)
        /\ ret[Ge] = IF ret[Lt].err # "nil" THEN Err(ret[Lt].err) ELSE Ok(~ret[Lt].res)
        /\ \A c \in {Gt, Le, Ge} : ret[c].err \in {"nil", ret[Eq].err, ret[Lt].err}
        /\ (/\ args.v1.Name = args.v2.Name
            /\ args.v1.Value.kind = "bool"
            /\ args.v2.Value.kind = "bool") =>
              /\ ret[Eq] = Ok(args.v1.Value.b = args.v2.Value.b)
              /\ ret[Gt] = Err("errOperationNotDefined")
              /\ ret[Le] = Err("errOperationNotDefined")

\* Two equal booleans of one name were compared: Eq is true, Le and Gt fail.
C25_Witness ==
    /\ pc = "compare"
    /\ args.v1 = args.v2
    /\ args.v1.Value = BoolV(TRUE)
    /\ ret[Eq] = Ok(TRUE)
    /\ ret[Le] = Err("errOperationNotDefined")
    /\ ret[Gt] = Err("errOperationNotDefined")

\* The name without its width suffix, a hyphen and digits at its end.
WithoutWidthSuffix(s) ==
    IF HasWidthSuffix(s) THEN SubSeq(s, 1, Len(s) - Len(TrailingDigits(s)) - 1) ELSE s

\* C27: parseInfo fails exactly when the name without its width suffix does
\* not start with "Benchmark"; every name that starts with it decomposes,
\* the bare name Benchmark included.
C27_FailsWithoutPrefix ==
    pc = "parseInfo" =>
        (ret.err # "nil" <=> ~HasPrefix(WithoutWidthSuffix(args.s), BenchmarkPrefix))

(***************************************************************************)
(* Further properties of parseValueComparison                              *)
(***************************************************************************)

\* The operations in the order ==, !=, <=, >=, <, >.
OperatorOrder == <<Eq, Ne, Le, Ge, Lt, Gt>>

\* The expression parsed.
CmpExpr == args.n \o args.op \o args.v

\* The places in OperatorOrder of the operations that cut the expression
\* into at least, and into exactly, two parts.
Occurring == {i \in DOMAIN OperatorOrder : Len(Split(CmpExpr, OperatorOrder[i])) >= 2}

CutInTwo == {i \in DOMAIN OperatorOrder : Len(Split(CmpExpr, OperatorOrder[i])) = 2}

\* The parts of the expression around the first operation of a set of places.
PartsAtFirst(places) ==
    LET first == CHOOSE i \in places : \A j \in places : i <= j
    IN [cmp |-> OperatorOrder[first], parts |-> Split(CmpExpr, OperatorOrder[first])]

\* C26 (as stated): parseValueComparison fails exactly when no operation
\* occurs in the expression or the first that occurs cuts it into more than
\* two parts; otherwise it returns the parts around that operation.
C26_FailsOnFirstOccurring ==
    pc = "parseValueComparison" =>
        IF Occurring = {} \/ Len(PartsAtFirst(Occurring).parts) > 2
        THEN ret.err = "errMalformedFilter"
        ELSE /\ ret.err = "nil"
             /\ ret.cmp = PartsAtFirst(Occurring).cmp
             /\ ret.varValue.Name = PartsAtFirst(Occurring).parts[1]
             /\ ret.varValue.Value = value(PartsAtFirst(Occurring).parts[2])

\* C26: parseValueComparison fails with errMalformedFilter exactly when none
\* of the six operations cuts the expression into exactly two parts;
\* otherwise it returns the first operation in the order ==, !=, <=, >=, <, >
\* that does, with the part before it as name and the value of the part
\* after it, whether or not an operation earlier in the order occurs more
\* than once.
C26_FailsWhenNoneCutsInTwo ==
    pc = "parseValueComparison" =>
        IF CutInTwo = {}
        THEN ret.err = "errMalformedFilter"
        ELSE /\ ret.err = "nil"
             /\ ret.cmp = PartsAtFirst(CutInTwo).cmp
             /\ ret.varValue.Name = PartsAtFirst(CutInTwo).parts[1]
             /\ ret.varValue.Value = value(PartsAtFirst(CutInTwo).parts[2])

\* y<==1==2 holds == twice and <= once: it was parsed as y, Le and the
\* string =1==2.
C26_Witness ==
    /\ pc = "parseValueComparison"
    /\ CmpExpr = <<"y", "<", "=", "=", "1", "=", "=", "2">>
    /\ ret = [varValue |-> BenchVarValue(<<"y">>, StrV(<<"=", "1", "=", "=", "2">>), 0),
              cmp |-> Le, err |-> "nil"]

(***************************************************************************)
(* Further properties of Group                                             *)
(***************************************************************************)

\* s holds elements of t in the order of t, each place of t taken at most
\* once.
RECURSIVE IsSubsequence(_, _)
IsSubsequence(s, t) ==
    IF s = <<>> THEN TRUE
    ELSE IF t = <<>> THEN FALSE
    ELSE IF Head(s) = Head(t) THEN IsSubsequence(Tail(s), Tail(t))
    ELSE IsSubsequence(s, Tail(t))

\* No result is in two buckets or twice in one, every bucket holds results
\* of the list given in its order, and the list given is as it was.  (The
\* results of a list differ from each other by their outputs.)
BucketsPartOfInput ==
    /\ \A k \in DOMAIN ret : IsSubsequence(ret[k], args.b) /\ NoRepeat(ret[k])
    /\ \A k1, k2 \in DOMAIN ret : k1 # k2 => Range(ret[k1]) \cap Range(ret[k2]) = {}
    /\ results = args.b

\* C29 (as stated): the buckets Group returns are disjoint parts of the
\* list given, in its order, and none is empty.
C29_DisjointNonEmptyBuckets ==
    pc = "Group" =>
        /\ BucketsPartOfInput
        /\ \A k \in DOMAIN ret : ret[k] # <<>>

\* C29: the buckets Group returns are disjoint parts of the list given, in
\* its order; none is empty but the single bucket "" returned for an empty
\* group-by list and an empty list of results.
C29_DisjointBuckets ==
    pc = "Group" =>
        /\ BucketsPartOfInput
        /\ \A k \in DOMAIN ret :
              ret[k] = <<>> => (args.groupBy = <<>> /\ args.b = <<>> /\ DOMAIN ret = {<<>>})
        /\ (args.groupBy = <<>> /\ args.b = <<>>) => ret = [k \in {<<>>} |-> <<>>]

\* Two results were grouped by a name into two buckets of one result each.
C29_Witness ==
    /\ pc = "Group"
    /\ Len(args.b) = 2
    /\ Len(args.groupBy) = 1
    /\ Cardinality(DOMAIN ret) = 2
    /\ \E k1, k2 \in DOMAIN ret : ret[k1] = <<args.b[1]>> /\ ret[k2] = <<args.b[2]>>

(***************************************************************************)
(* Further properties of Filter                                            *)
(***************************************************************************)

\* C30: when filtering by e1 and then e2 and filtering by e2 and then e1
\* both succeed they return the same list; and when filtering the list by
\* e1 and filtering it by e2 both succeed, so do both chains.
C30_FiltersCommute ==
    pc = "FilterPair" =>
        /\ (ret.firstSecond.err = "nil" /\ ret.secondFirst.err = "nil") =>
              ret.firstSecond = ret.secondFirst
        /\ (ret.first.err = "nil" /\ ret.second.err = "nil") =>
              (ret.firstSecond.err = "nil" /\ ret.secondFirst.err = "nil")

\* Of two results the first matched y==1 only and the second z==1 as well:
\* both chains returned the second result alone.
C30_Witness ==
    /\ pc = "FilterPair"
    /\ args.e1 = <<"y", "=", "=", "1">>
    /\ args.e2 = <<"z", "=", "=", "1">>
    /\ Len(results) = 2
    /\ ret.first.filtered = results
    /\ ret.second.filtered = <<results[2]>>
    /\ ret.firstSecond = [filtered |-> <<results[2]>>, isNil |-> FALSE, err |-> "nil"]
    /\ ret.secondFirst = ret.firstSecond

====
